---- MODULE Spec2Model ----
(***************************************************************************)
(* A model of the playwright-service middleware: the request orchestrator  *)
(* (get_html_base), the fetch state machine (execute_with_proxy_retry),    *)
(* the response cache (RequestHistoryModel), the proxy pool (ProxyPool)    *)
(* and the browser lifecycle (BrowserManager).                             *)
(*                                                                         *)
(* The service runs on one asyncio event loop: the code between two awaits *)
(* is atomic, and each action below is one such step of one fetch.  The    *)
(* position of a fetch (task[f].pc) names the await it is suspended at.    *)
(***************************************************************************)
EXTENDS Naturals, Integers, Sequences, FiniteSets, TLC

\* ---------------------------------------------------------------- bounds
\* Concurrent fetches (coroutines running get_html_base).
NumFetches == 2
\* service_config.max_concurrent_requests: the capacity of request_semaphore.
MaxConcurrent == 1
\* Rows in the store when a lookup is checked on its own (SpecLookup).
MaxRows == 2
NumArrivals == 3
\* Latest clock value, in days, of SpecLookup.
MaxDay == 2
\* Calls of ProxyPool.get_proxy each caller of SpecPool makes.
MaxCalls == 3

\* Drivers started for one engine under SpecBrowser.
MaxStarts == 2
\* Calls of stop() that raise, per driver, under SpecBrowser.
MaxStops == 2

\* ------------------------------------------------------ program constants
MAX_PROXY_RETRY_ATTEMPTS == 3
\* timedelta(days=1) of get_request_history.
FRESH_DAYS == 1
\* for attempt in range(3) of force_get_content.
FORCE_READ_ATTEMPTS == 3

Fetches == 1 .. NumFetches

\* ------------------------------------------------------------ input sets
Urls == {"u1", "u2"}
Engines == {"chrome", "firefox"}
\* The url and engine the concurrent fetches of Spec ask for.
SpecUrl == "u1"
SpecEngine == "chrome"
ProxyTypes == {"none", "static", "dynamic"}

\* HTTP statuses page.goto answers with.
HttpStatuses == {200, 404, 407}

\* Page bodies page.content() answers with.  A body is described by what the
\* code looks at: whether it is longer than 5000 characters, how many leaf
\* nodes its DOM has, and which proxy-error-page pattern it contains ("" for
\* none).  `id` tells two bodies with the same description apart.
Body(id, long, leaves, pattern) ==
    [id |-> id, long |-> long, leaves |-> leaves, pattern |-> pattern]
EmptyBody == Body("", FALSE, 0, "")
BodyA == Body("A", TRUE, 40, "")
BodyErr == Body("E", TRUE, 40, "ErrorCode:631")
BodyFew == Body("F", FALSE, 3, "")
BodyOld == Body("O", TRUE, 40, "")
Bodies == {BodyA, BodyErr, BodyFew, EmptyBody}

\* Exception messages a driver call raises, described by the substrings the
\* code searches them for.
MsgTunnel == "net::ERR_TUNNEL_CONNECTION_FAILED"
MsgClosed == "Target page, context or browser has been closed"
MsgOther == "net::ERR_NAME_NOT_RESOLVED"
Msg407 == "Proxy authentication required"
NavErrors == {MsgTunnel, MsgClosed, MsgOther}

VARIABLES
    task,                \* per fetch: the coroutine's position and locals
    request_semaphore,   \* config.request_semaphore: value, waiters, woken
    processing_requests, \* gauge
    waiting_requests,    \* gauge
    history,             \* the request_history table, in insertion order
    now,                 \* the wall clock, in days
    pool,                \* ProxyPool: _cached_proxy, _async_lock
    proxy_type,          \* service_config.proxy_type
    browser,             \* the engine's BrowserInstance
    open_contexts,       \* driver: contexts created and not closed
    open_pages,          \* driver: pages created and not closed
    ghost,               \* per fetch: counts of what the fetch has done
    lookup,              \* SpecLookup: the answer of the last cache lookup
    instances,           \* BrowserFactory._instances: per engine, the fields
    drivers              \* per engine: the Playwright drivers started so far

vars == << task, request_semaphore, processing_requests, waiting_requests,
           history, now, pool, proxy_type, browser, open_contexts, open_pages,
           ghost, lookup, instances, drivers >>

\* BrowserFactory._browsers: the engine classes.
EngineClasses == {"chrome", "firefox", "webkit"}

\* None, for a handle of a BrowserInstance.
NoHandle == 0

\* BaseBrowser.__init__: no browser, no driver, not initialized.  pc, started,
\* held and outcome follow the call in progress on the instance: started is
\* the driver the last initialize started, held the browser the last close
\* found, outcome how the last call ended.
NewInstance ==
    [browser |-> NoHandle, playwright |-> NoHandle, initialized |-> FALSE,
     pc |-> "idle", started |-> NoHandle, held |-> NoHandle, outcome |-> ""]

\* ------------------------------------------------------------ pure parts

\* RequestHistoryModel.get_hashed_url: sha256 of the url, hex.  Distinct urls
\* of the model have distinct digests.
get_hashed_url(url) ==
    CASE url = "u1" -> "5a1e" [] url = "u2" -> "c03b" [] OTHER -> "0000"

\* Variant of EligibleRows without the status filter of the WHERE clause.
EligibleRowsAnyStatus(rows, url, browser_type, today) ==
    { i \in 1 .. Len(rows) :
        /\ rows[i].url_hash = get_hashed_url(url)
        /\ rows[i].browser_type = browser_type
        /\ rows[i].created_at > today - FRESH_DAYS }

\* The rows get_request_history's WHERE clause selects.
EligibleRows(rows, url, browser_type, today) ==
    { i \in 1 .. Len(rows) :
        /\ rows[i].url_hash = get_hashed_url(url)
        /\ rows[i].status_code = 200
        /\ rows[i].browser_type = browser_type
        /\ rows[i].created_at > today - FRESH_DAYS }

\* get_request_history: result.first() of a SELECT with no ORDER BY: any one
\* of the selected rows, or none when nothing is selected.
NoRow == 0
get_request_history(rows, url, browser_type, today) ==
    IF EligibleRows(rows, url, browser_type, today) = {}
    THEN {NoRow}
    ELSE EligibleRows(rows, url, browser_type, today)

\* create_request_history: the row written for a fetch.
NewRow(url, browser_type, status_code, response_body, today, f) ==
    [url |-> url, url_hash |-> get_hashed_url(url),
     browser_type |-> browser_type, status_code |-> status_code,
     response_body |-> response_body, created_at |-> today, fetch |-> f]

\* A row an earlier run of the service left in the table.
OldRow == NewRow(SpecUrl, SpecEngine, 200, BodyOld, 0, 0)

\* is_proxy_error_page.
is_proxy_error_page(body) ==
    IF body = EmptyBody THEN [hit |-> FALSE, pattern |-> ""]
    ELSE IF body.leaves < 32 THEN [hit |-> TRUE, pattern |-> "leaf_nodes_too_few"]
    ELSE IF body.pattern # "" THEN [hit |-> TRUE, pattern |-> body.pattern]
    ELSE [hit |-> FALSE, pattern |-> ""]

\* is_proxy_error on the messages of the model.  The first listed pattern is
\* net::ERR_TUNNEL_CONNECTION_FAILED; a message without it that contains
\* PROXY (in any case) is answered by the elif of the first iteration.
is_proxy_error(msg) ==
    IF msg = MsgTunnel THEN [hit |-> TRUE, reason |-> "tunnel_failed"]
    ELSE IF msg = Msg407 THEN [hit |-> TRUE, reason |-> "other proxy_error: " \o msg]
    ELSE [hit |-> FALSE, reason |-> ""]

\* _should_reinit_browser.
should_reinit_browser(msg) == msg = MsgClosed

\* ----------------------------------------------------------------- state
NoReq == [url |-> "", browser_type |-> "", use_cache |-> FALSE, force |-> FALSE]
HtmlResponse(html, code, err, hit) ==
    [html |-> html, page_status_code |-> code, page_error |-> err, cache_hit |-> hit]
\* result = HtmlResponse(html="", page_status_code=-1, page_error="")
InitialResult == HtmlResponse(EmptyBody, -1, "", 0)

IdleTask ==
    [pc |-> "idle", exc |-> "none", req |-> NoReq, result |-> InitialResult,
     response_body |-> EmptyBody,
     retry_count |-> 0, attempt |-> 0, pending |-> "", reason |-> "",
     page |-> 0, context |-> 0, ctx_page |-> 0, ctx_context |-> 0,
     cp_page |-> 0, cp_context |-> 0, proxy_item |-> 0, status |-> 0,
     fattempt |-> 0, html_content |-> EmptyBody, last_error |-> FALSE,
     recreating |-> FALSE]

IdleGhost ==
    [navigations |-> 0, pool_gets |-> 0, rows |-> 0, slots |-> 0,
     incs |-> 0, decs |-> 0, returned |-> 0, hit |-> FALSE,
     cancel_point |-> "", traced |-> {}, events |-> << >>]

\* One observable event of a fetch: a call it makes on the driver, the pool
\* or a metric, or an answer it gets.  A fetch keeps the sequence of its
\* events of the kinds named in ghost.traced: none for the fetches of Spec,
\* the kinds a specification observes for its one fetch.
Ev(op, arg, n) == [op |-> op, arg |-> arg, n |-> n]
Log(g, evs) ==
    [g EXCEPT !.events = @ \o SelectSeq(evs, LAMBDA e : e.op \in g.traced)]

NoProxy == [server |-> 0, reuse_count |-> 0]

Init ==
    /\ task = [f \in Fetches |-> IdleTask]
    /\ request_semaphore = [value |-> MaxConcurrent, waiters |-> << >>, woken |-> {}]
    /\ processing_requests = 0
    /\ waiting_requests = 0
    /\ history \in {<< >>, << OldRow >>}
    /\ now = 0
    /\ pool = [cached |-> NoProxy, lock |-> 0]
    /\ proxy_type \in ProxyTypes
    /\ browser = [initialized |-> FALSE]
    /\ open_contexts = {}
    /\ open_pages = {}
    /\ ghost = [f \in Fetches |-> IdleGhost]
    /\ lookup = [asked |-> FALSE, url |-> "", browser_type |-> "", row |-> NoRow]
    /\ instances = [e \in EngineClasses |-> NewInstance]
    /\ drivers = [e \in EngineClasses |-> << >>]

\* ------------------------------------------------- asyncio.Semaphore
\* Semaphore.locked(): no free slot, or somebody is queued.
SemLocked(s) == s.value = 0 \/ Len(s.waiters) > 0

\* Semaphore._wake_up_next(): hand a slot to the first queued waiter whose
\* future is not done yet.
WakeNext(s) ==
    LET pending == { i \in 1 .. Len(s.waiters) : s.waiters[i] \notin s.woken }
    IN  IF s.value > 0 /\ pending # {}
        THEN LET i == CHOOSE j \in pending : \A k \in pending : j <= k
             IN  [s EXCEPT !.value = @ - 1, !.woken = @ \cup {s.waiters[i]}]
        ELSE s

\* Semaphore.release(), the exit of `async with request_semaphore`.
SemRelease(s) == WakeNext([s EXCEPT !.value = @ + 1])

\* The waiter f leaves the queue (the finally of Semaphore.acquire).
SemLeave(s, f) ==
    [s EXCEPT !.waiters = SelectSeq(@, LAMBDA w : w # f), !.woken = @ \ {f}]

\* ------------------------------------------------------ the orchestrator

\* What is still read of the request once the retry loop is over: url and
\* browser_type.
Args(req) == [req EXCEPT !.use_cache = FALSE, !.force = FALSE]

\* get_waiting_requests(): publishes len(request_semaphore._waiters).
get_waiting_requests(s) == Len(s.waiters)

\* _get_proxy_settings(force_refresh=False) is called: the fetch now waits
\* for ProxyPool._async_lock.  use_cache is not read again.
EnterTry(t) == [t EXCEPT !.pc = "get_proxy", !.req.use_cache = FALSE]

\* get_html_base up to its first await: processing_requests.inc(), then the
\* cache probe when use_cache is set, else the try block.
Start(f, use_cache, force) ==
    /\ task[f].pc = "idle"
    /\ ghost[f].incs = 0
    /\ processing_requests' = processing_requests + 1
    /\ ghost' = [ghost EXCEPT ![f].incs = @ + 1]
    /\ LET t == [task[f] EXCEPT !.req = [url |-> SpecUrl, browser_type |-> SpecEngine,
                                         use_cache |-> use_cache, force |-> force]]
       IN  IF use_cache
           THEN /\ task' = [task EXCEPT ![f] = [t EXCEPT !.pc = "probe"]]
                /\ UNCHANGED waiting_requests
           ELSE /\ task' = [task EXCEPT ![f] = EnterTry(t)]
                /\ waiting_requests' = get_waiting_requests(request_semaphore)
    /\ UNCHANGED << request_semaphore, history, now, pool, proxy_type, browser,
                    open_contexts, open_pages, lookup, instances, drivers >>

\* Variant of ProbeHit that also records the hit in the table.
ProbeHitRecorded(f) ==
    /\ task[f].pc = "probe"
    /\ \E i \in get_request_history(history, task[f].req.url,
                                    task[f].req.browser_type, now) :
        /\ i # NoRow
        /\ task' = [task EXCEPT ![f].pc = "done", ![f].req = Args(task[f].req),
                                ![f].result = HtmlResponse(history[i].response_body,
                                                           history[i].status_code, "", 1)]
        /\ history' = Append(history,
                NewRow(task[f].req.url, task[f].req.browser_type,
                       history[i].status_code, history[i].response_body, now, f))
    /\ processing_requests' = processing_requests - 1
    /\ ghost' = [ghost EXCEPT ![f].decs = @ + 1, ![f].returned = @ + 1,
                              ![f].hit = TRUE]
    /\ UNCHANGED << request_semaphore, waiting_requests, now, pool,
                    proxy_type, browser, open_contexts, open_pages, lookup, instances, drivers >>

\* The cache probe answers with a row: a hit.  processing_requests.dec() and
\* the stored body is returned with cache_hit=1.
ProbeHit(f) ==
    /\ task[f].pc = "probe"
    /\ \E i \in get_request_history(history, task[f].req.url,
                                    task[f].req.browser_type, now) :
        /\ i # NoRow
        /\ task' = [task EXCEPT ![f].pc = "done", ![f].req = Args(task[f].req),
                                ![f].result = HtmlResponse(history[i].response_body,
                                                           history[i].status_code, "", 1)]
    /\ processing_requests' = processing_requests - 1
    /\ ghost' = [ghost EXCEPT ![f].decs = @ + 1, ![f].returned = @ + 1,
                              ![f].hit = TRUE]
    /\ UNCHANGED << request_semaphore, waiting_requests, history, now, pool,
                    proxy_type, browser, open_contexts, open_pages, lookup, instances, drivers >>

\* The cache probe answers with no row: a miss, and the try block begins.
ProbeMiss(f) ==
    /\ task[f].pc = "probe"
    /\ NoRow \in get_request_history(history, task[f].req.url,
                                     task[f].req.browser_type, now)
    /\ task' = [task EXCEPT ![f] = EnterTry(task[f])]
    /\ waiting_requests' = get_waiting_requests(request_semaphore)
    /\ UNCHANGED << request_semaphore, processing_requests, history, now, pool,
                    proxy_type, browser, open_contexts, open_pages, ghost, lookup, instances, drivers >>

\* The cache probe raises (the store is unreachable): line 798 is outside the
\* try block, so the exception leaves get_html_base.
ProbeFail(f) ==
    /\ task[f].pc = "probe"
    /\ task' = [task EXCEPT ![f] = [IdleTask EXCEPT !.pc = "raised",
                                                    !.req = Args(task[f].req)]]
    /\ UNCHANGED << request_semaphore, processing_requests, waiting_requests,
                    history, now, pool, proxy_type, browser, open_contexts,
                    open_pages, ghost, lookup, instances, drivers >>

\* ----------------------------------------------------------- ProxyPool

\* _create_browser_page is entered: browser_manager.get_browser, which
\* launches the engine (an await) unless the instance is initialized, and
\* then the await of create_context.
EnterCreate(t, attempt) ==
    [t EXCEPT !.pc = IF browser.initialized THEN "create_ctx" ELSE "launching",
              !.attempt = attempt, !.cp_page = 0, !.cp_context = 0]

\* What a fetch is seen to do when it calls _create_browser_page.
CreateCalled == << Ev("create_browser_page", "", 0) >>

\* Variant of EnterSemaphore that never queues.
EnterSemaphoreUnchecked(f, t, g) ==
    /\ request_semaphore' = [request_semaphore EXCEPT !.value = @ - 1]
    /\ task' = [task EXCEPT ![f] = EnterCreate(t, 0)]
    /\ ghost' = [ghost EXCEPT ![f] = Log([g EXCEPT !.slots = @ + 1], CreateCalled)]

\* `async with request_semaphore` (line 833): take a slot when one is free
\* and nobody is queued, else queue up.
EnterSemaphore(f, t, g) ==
    IF ~SemLocked(request_semaphore)
    THEN /\ request_semaphore' = [request_semaphore EXCEPT !.value = @ - 1]
         /\ task' = [task EXCEPT ![f] = EnterCreate(t, 0)]
         /\ ghost' = [ghost EXCEPT ![f] = Log([g EXCEPT !.slots = @ + 1], CreateCalled)]
    ELSE /\ request_semaphore' = [request_semaphore EXCEPT !.waiters = Append(@, f)]
         /\ task' = [task EXCEPT ![f] = [t EXCEPT !.pc = "sem_wait"]]
         /\ ghost' = [ghost EXCEPT ![f] = g]

\* A queued fetch whose future was set resumes inside Semaphore.acquire: it
\* leaves the queue holding the slot, and enters _create_browser_page.
SemWake(f) ==
    /\ task[f].pc = "sem_wait"
    /\ f \in request_semaphore.woken
    /\ request_semaphore' = WakeNext(SemLeave(request_semaphore, f))
    /\ task' = [task EXCEPT ![f] = EnterCreate(task[f], 0)]
    /\ ghost' = [ghost EXCEPT ![f] = Log([@ EXCEPT !.slots = @ + 1], CreateCalled)]
    /\ UNCHANGED << processing_requests, waiting_requests, history, now, pool,
                    proxy_type, browser, open_contexts, open_pages, lookup, instances, drivers >>

\* What follows the return of _get_proxy_settings: the semaphore for the
\* first proxy of a fetch (line 833), _create_browser_page inside
\* recreate_session_with_new_proxy (line 279).
AfterProxy(f, t, g) ==
    IF t.recreating
    THEN /\ task' = [task EXCEPT ![f] = EnterCreate(t, 0)]
         /\ ghost' = [ghost EXCEPT ![f] = Log(g, CreateCalled)]
         /\ UNCHANGED request_semaphore
    ELSE EnterSemaphore(f, t, g)

\* Variant of NewCachedProxy that does not count the first use.
NewCachedProxyUncounted(p) == [server |-> 1, reuse_count |-> 0]

\* The CachedProxy installed for a proxy the source yielded.
NewCachedProxy(p) == [server |-> 1, reuse_count |-> 1]

\* ProxyPool.get_proxy(force_refresh) under _async_lock.  force_refresh is
\* False for the first proxy of a fetch and True inside a re-creation.  With
\* a cached proxy and no force_refresh the proxy is reused; else the source
\* is asked: none and static answer at once, dynamic awaits the provider
\* with the lock held.
PoolGet(f) ==
    /\ task[f].pc = "get_proxy"
    /\ pool.lock = 0
    /\ LET t == task[f]
           g == Log([ghost[f] EXCEPT !.pool_gets = @ + 1],
                    << Ev("get_proxy", IF t.recreating THEN "force_refresh" ELSE "", 0) >>)
       IN  IF pool.cached # NoProxy /\ ~t.recreating
           THEN /\ pool' = [pool EXCEPT !.cached.reuse_count = @ + 1]
                /\ AfterProxy(f, [t EXCEPT !.proxy_item = pool.cached.server], g)
           ELSE CASE proxy_type = "dynamic" ->
                     /\ pool' = [pool EXCEPT !.lock = f]
                     /\ task' = [task EXCEPT ![f].pc = "provider"]
                     /\ ghost' = [ghost EXCEPT ![f] = g]
                     /\ UNCHANGED request_semaphore
                  [] proxy_type = "static" ->
                     /\ pool' = [pool EXCEPT !.cached = NewCachedProxy(pool)]
                     /\ AfterProxy(f, [t EXCEPT !.proxy_item =
                                                  NewCachedProxy(pool).server], g)
                  [] OTHER ->
                     /\ pool' = [pool EXCEPT !.cached = NoProxy]
                     /\ AfterProxy(f, [t EXCEPT !.proxy_item = 0], g)
    /\ UNCHANGED << processing_requests, waiting_requests, history, now,
                    proxy_type, browser, open_contexts, open_pages, lookup, instances, drivers >>

\* ProxyManager.get_api returns a proxy: the pool installs it with
\* reuse_count 1 and releases the lock.
ProviderReply(f) ==
    /\ task[f].pc = "provider"
    /\ pool' = [pool EXCEPT !.cached = NewCachedProxy(pool), !.lock = 0]
    /\ AfterProxy(f, [task[f] EXCEPT !.proxy_item = NewCachedProxy(pool).server],
                  ghost[f])
    /\ UNCHANGED << processing_requests, waiting_requests, history, now,
                    proxy_type, browser, open_contexts, open_pages, lookup, instances, drivers >>

\* Variant of PoolGetRaises that hands on the cached server.
PoolGetRaisesKeepsProxy(f) ==
    /\ task[f].pc = "get_proxy"
    /\ pool.lock = 0
    /\ AfterProxy(f, [task[f] EXCEPT !.proxy_item = 1],
                  Log([ghost[f] EXCEPT !.pool_gets = @ + 1],
                      << Ev("get_proxy", IF task[f].recreating THEN "force_refresh" ELSE "", 0),
                         Ev("get_proxy_raised", "", 0),
                         Ev("proxy_failures_total", "", 1) >>))
    /\ UNCHANGED << processing_requests, waiting_requests, history, now, pool,
                    proxy_type, browser, open_contexts, open_pages, lookup, instances, drivers >>

\* `except Exception` of _get_proxy_settings (lines 106-111): the await of
\* proxy_pool.get_proxy raises before the pool has changed;
\* proxy_failures_total is incremented and None is returned.  No path of
\* ProxyPool.get_proxy raises an Exception by itself (get_api catches
\* every one), so this step belongs to SpecAcquire only.
PoolGetRaises(f) ==
    /\ task[f].pc = "get_proxy"
    /\ pool.lock = 0
    /\ AfterProxy(f, [task[f] EXCEPT !.proxy_item = 0],
                  Log([ghost[f] EXCEPT !.pool_gets = @ + 1],
                      << Ev("get_proxy", IF task[f].recreating THEN "force_refresh" ELSE "", 0),
                         Ev("get_proxy_raised", "", 0),
                         Ev("proxy_failures_total", "", 1) >>))
    /\ UNCHANGED << processing_requests, waiting_requests, history, now, pool,
                    proxy_type, browser, open_contexts, open_pages, lookup, instances, drivers >>

\* -------------------------------------------------------------- unwinding
\* A local that is not read again is put back to its initial value, so that
\* states differing only in dead locals are one state.

\* The inner finally of get_html_base (lines 883-887) is entered with the
\* exception in flight, exc: "none", "error" (an Exception) or "cancel"
\* (asyncio.CancelledError).
InnerFinally(t, exc) ==
    [IdleTask EXCEPT !.pc = "fin_close_page", !.exc = exc, !.req = Args(t.req),
                     !.result = t.result, !.response_body = t.response_body,
                     !.page = t.page, !.context = t.context]

\* Past the `async with`: `except Exception` (lines 889-894) turns an error
\* into the 603 result, and the outer finally (lines 896-913) calls
\* record_operation_metrics, which decrements processing_requests and then
\* awaits create_request_history.  A CancelledError stays in flight.
OuterFinally(t, exc) ==
    [IdleTask EXCEPT !.pc = "hist_write", !.req = Args(t.req),
              !.response_body = t.response_body,
              !.exc = IF exc = "cancel" THEN "cancel" ELSE "none",
              !.result = IF exc = "error"
                         THEN HtmlResponse(EmptyBody, 603, "request failed", 0)
                         ELSE t.result]

\* `except Exception` of get_html_base (lines 889-894) counts the error it
\* turns into the 603 result: api_errors_total{error_type="other"}.
OuterExceptEvents(exc) ==
    IF exc = "error" THEN << Ev("api_errors_total", "other", 1) >> ELSE << >>

\* An exception leaves _create_browser_page.  For the first pair of a fetch
\* that is before the inner try: the slot is released and the outer handlers
\* run.  Inside a re-creation it unwinds execute_with_proxy_retry into the
\* inner finally.
LeaveCreate(f, t, g, exc) ==
    IF t.recreating
    THEN /\ task' = [task EXCEPT ![f] = InnerFinally(t, exc)]
         /\ ghost' = [ghost EXCEPT ![f] = g]
         /\ UNCHANGED << request_semaphore, processing_requests >>
    ELSE /\ task' = [task EXCEPT ![f] = OuterFinally(t, exc)]
         /\ request_semaphore' = SemRelease(request_semaphore)
         /\ processing_requests' = processing_requests - 1
         /\ ghost' = [ghost EXCEPT ![f] =
                Log([g EXCEPT !.slots = @ - 1, !.decs = @ + 1],
                    OuterExceptEvents(exc))]

\* Variant of CreateFailed that re-initializes after any first failure.
CreateFailedRetryAny(f, t, msg) ==
    IF t.attempt = 0
    THEN /\ task' = [task EXCEPT ![f] = [t EXCEPT !.pc = "reinit"]]
         /\ ghost' = [ghost EXCEPT ![f] =
                Log(@, << Ev("create_failed", msg, t.attempt),
                          Ev("browser_reinitializations_total", "", 1) >>)]
         /\ UNCHANGED << request_semaphore, processing_requests >>
    ELSE LeaveCreate(f, t, Log(ghost[f], << Ev("create_failed", msg, t.attempt) >>),
                     "error")

\* An exception msg is caught by `except Exception` of _create_browser_page
\* (lines 129-137): a stale browser on the first attempt is re-initialized,
\* anything else is raised again.
CreateFailed(f, t, msg) ==
    IF t.attempt = 0 /\ should_reinit_browser(msg)
    THEN /\ task' = [task EXCEPT ![f] = [t EXCEPT !.pc = "reinit"]]
         /\ ghost' = [ghost EXCEPT ![f] =
                Log(@, << Ev("create_failed", msg, t.attempt),
                          Ev("browser_reinitializations_total", "", 1) >>)]
         /\ UNCHANGED << request_semaphore, processing_requests >>
    ELSE LeaveCreate(f, t, Log(ghost[f], << Ev("create_failed", msg, t.attempt) >>),
                     "error")

\* ------------------------------------------------- _create_browser_page

\* BaseBrowser.ensure_initialized awaited initialize(): the engine is up, or
\* the launch raised (outside the try of _create_browser_page).
Launch(f) ==
    /\ task[f].pc = "launching"
    /\ \/ /\ browser' = [browser EXCEPT !.initialized = TRUE]
          /\ task' = [task EXCEPT ![f].pc = "create_ctx"]
          /\ UNCHANGED << request_semaphore, processing_requests, ghost >>
       \/ /\ LeaveCreate(f, task[f],
                         Log(ghost[f], << Ev("launch_failed", "", task[f].attempt) >>),
                         "error")
          /\ UNCHANGED browser
    /\ UNCHANGED << waiting_requests, history, now, pool, proxy_type,
                    open_contexts, open_pages, lookup, instances, drivers >>

\* The identity of a new context of fetch f: the least number that names
\* neither an open context or page of f nor one a local of f still refers to.
UsedIds(f) ==
    {c[2] : c \in {x \in open_contexts \cup open_pages : x[1] = f}}
        \cup {task[f].page, task[f].context, task[f].ctx_page,
              task[f].ctx_context, task[f].cp_page, task[f].cp_context}

NewId(f) ==
    CHOOSE k \in 1..(Cardinality(UsedIds(f)) + 1) :
        /\ k \notin UsedIds(f)
        /\ \A j \in 1..(k - 1) : j \in UsedIds(f)

\* browser_instance.create_context(proxy_item): a new context, or an
\* exception.  An instance that was closed meanwhile has no browser and raises.
CreateContext(f) ==
    /\ task[f].pc = "create_ctx"
    /\ \/ /\ browser.initialized
          /\ LET k == NewId(f)
             IN  /\ open_contexts' = open_contexts \cup {<< f, k >>}
                 /\ task' = [task EXCEPT ![f].pc = "create_page",
                                         ![f].cp_context = k]
          /\ ghost' = [ghost EXCEPT ![f] =
                Log(@, << Ev("create_context", "", task[f].proxy_item) >>)]
          /\ UNCHANGED << request_semaphore, processing_requests >>
       \/ /\ \E msg \in {MsgClosed, MsgOther} : CreateFailed(f, task[f], msg)
          /\ UNCHANGED open_contexts
    /\ UNCHANGED << waiting_requests, history, now, pool, proxy_type, browser,
                    open_pages, lookup, instances, drivers >>

\* browser_instance.create_page(context): a new page on the context just
\* made, or an exception; _create_browser_page returns the pair, which
\* get_html_base binds to page, context (line 839).
CreatePage(f) ==
    /\ task[f].pc = "create_page"
    /\ \/ /\ << f, task[f].cp_context >> \in open_contexts
          /\ open_pages' = open_pages \cup {<< f, task[f].cp_context >>}
          /\ task' = [task EXCEPT
                ![f].pc = "setup",
                ![f].cp_page = task[f].cp_context,
                ![f].page = IF task[f].recreating THEN @ ELSE task[f].cp_context,
                ![f].context = IF task[f].recreating THEN @ ELSE task[f].cp_context]
          /\ ghost' = [ghost EXCEPT ![f] =
                Log(@, << Ev("created", "", task[f].attempt) >>)]
          /\ UNCHANGED << request_semaphore, processing_requests >>
       \/ /\ \E msg \in {MsgClosed, MsgOther} : CreateFailed(f, task[f], msg)
          /\ UNCHANGED open_pages
    /\ UNCHANGED << waiting_requests, history, now, pool, proxy_type, browser,
                    open_contexts, lookup, instances, drivers >>

\* browser_manager.cleanup_all_browsers() of the stale recovery (line 135):
\* the instance is closed, and with it every context and page on it; the
\* second attempt then launches a new one.
Reinit(f) ==
    /\ task[f].pc = "reinit"
    /\ browser' = [browser EXCEPT !.initialized = FALSE]
    /\ open_contexts' = {}
    /\ open_pages' = {}
    /\ task' = [task EXCEPT ![f].pc = "launching", ![f].attempt = 1,
                            ![f].cp_page = 0, ![f].cp_context = 0]
    /\ ghost' = [ghost EXCEPT ![f] = Log(@, << Ev("cleanup_all_browsers", "", 0) >>)]
    /\ UNCHANGED << request_semaphore, processing_requests, waiting_requests,
                    history, now, pool, proxy_type, lookup, instances, drivers >>

\* ---------------------------------------------- execute_with_proxy_retry

\* get_error(status): the text for an HTTP status, empty for 200.
get_error(status) == IF status = 200 THEN "" ELSE "http_error"

\* create_error_response(status_code, error_msg) of get_html_base.
create_error_response(code, err) == HtmlResponse(EmptyBody, code, err, 0)

\* Variant of Return that hands on the result without its html.
ReturnWithoutHtml(t, result) ==
    InnerFinally([t EXCEPT !.result = [result EXCEPT !.html = EmptyBody],
                           !.response_body = EmptyBody,
                           !.page = t.ctx_page, !.context = t.ctx_context],
                 "none")

\* execute_with_proxy_retry returns result (a break of its loop): lines
\* 877-881 copy the body and the session's page and context into the locals
\* of get_html_base, and the inner finally runs.
Return(t, result) ==
    InnerFinally([t EXCEPT !.result = result, !.response_body = result.html,
                           !.page = t.ctx_page, !.context = t.ctx_context],
                 "none")

\* The locals of one navigation attempt go out of scope.
LoopLocals(t) ==
    [t EXCEPT !.status = 0, !.fattempt = 0, !.html_content = EmptyBody,
              !.last_error = FALSE]

\* Variant of HandleException that passes no reason to invalidate_proxy,
\* whose parameter then takes its default.
HandleExceptionNoReason(t, msg) ==
    IF is_proxy_error(msg).hit
    THEN [LoopLocals(t) EXCEPT !.retry_count = @ + 1, !.pending = "exception",
                   !.reason = "unknown", !.pc = "invalidate"]
    ELSE [LoopLocals(t) EXCEPT !.pending = "fatal", !.reason = "unknown",
                   !.pc = "invalidate"]

\* Variant of HandleException that takes every exception for a proxy error.
HandleExceptionRetriesAll(t, msg) ==
    [LoopLocals(t) EXCEPT !.retry_count = @ + 1, !.pending = "exception",
                          !.reason = "browser_error", !.pc = "invalidate"]

\* `except Exception` of the retry loop (lines 503-540) up to its await of
\* invalidate_proxy: a proxy-classified exception counts an attempt.
HandleException(t, msg) ==
    IF is_proxy_error(msg).hit
    THEN [LoopLocals(t) EXCEPT !.retry_count = @ + 1, !.pending = "exception",
                   !.reason = is_proxy_error(msg).reason, !.pc = "invalidate"]
    ELSE [LoopLocals(t) EXCEPT !.pending = "fatal", !.reason = "browser_error",
                   !.pc = "invalidate"]

\* Variant of HandlePageError whose reason is the bare pattern.
HandlePageErrorBarePattern(t, pattern) ==
    [LoopLocals(t) EXCEPT !.retry_count = @ + 1, !.pending = "page",
                          !.reason = pattern, !.pc = "invalidate"]

\* _handle_proxy_page_error up to its await of invalidate_proxy.
HandlePageError(t, pattern) ==
    [LoopLocals(t) EXCEPT !.retry_count = @ + 1, !.pending = "page",
                          !.reason = "page_error_" \o pattern, !.pc = "invalidate"]

\* What a fetch is seen to do when an exception msg reaches `except
\* Exception` of the retry loop: proxy_retry_total{attempt} for a
\* proxy-classified one.
ExceptionEvents(t, msg) ==
    << Ev("exception", msg, 0) >> \o
    (IF is_proxy_error(msg).hit
     THEN << Ev("proxy_retry_total", "", t.retry_count + 1) >> ELSE << >>)

\* What a fetch is seen to do when a body is detected as a proxy error page.
PageErrorEvents(t, pattern) ==
    << Ev("proxy_page", pattern, 0),
       Ev("proxy_retry_total", "", t.retry_count + 1) >>

\* _setup_page: the route handler and the extra headers are installed on the
\* new page, or one of the calls raises.  After the first setup the
\* ProxyRetryContext is built on the pair and the loop starts; after the
\* setup of a re-creation the context takes the new pair (lines 308-316) and
\* the loop continues.  Either way page.goto is called next.
SetupPage(f) ==
    /\ task[f].pc = "setup"
    /\ \/ /\ << f, task[f].cp_page >> \in open_pages
          /\ task' = [task EXCEPT ![f].pc = "goto",
                                  ![f].ctx_page = task[f].cp_page,
                                  ![f].ctx_context = task[f].cp_context,
                                  ![f].cp_page = 0, ![f].cp_context = 0,
                                  ![f].attempt = 0, ![f].proxy_item = 0,
                                  ![f].recreating = FALSE]
          /\ ghost' = [ghost EXCEPT ![f] =
                Log([@ EXCEPT !.navigations = @ + 1],
                    << Ev("goto", "", ghost[f].navigations + 1) >>)]
       \/ /\ task' = [task EXCEPT ![f] = InnerFinally(task[f], "error")]
          /\ ghost' = [ghost EXCEPT ![f] = Log(@, << Ev("setup_failed", "", 0) >>)]
    /\ UNCHANGED << request_semaphore, processing_requests, waiting_requests,
                    history, now, pool, proxy_type, browser, open_contexts,
                    open_pages, lookup, instances, drivers >>

\* page.goto answers: a response (407 raises "Proxy authentication
\* required"), a timeout, or another exception.  A closed page only raises.
Goto(f) ==
    /\ task[f].pc = "goto"
    /\ \/ /\ << f, task[f].ctx_page >> \in open_pages
          /\ \E status \in HttpStatuses :
                /\ task' = [task EXCEPT ![f] =
                      IF status = 407 THEN HandleException(task[f], Msg407)
                      ELSE [task[f] EXCEPT !.pc = "settle", !.status = status]]
                /\ ghost' = [ghost EXCEPT ![f] = Log(@,
                      << Ev("response", "", status) >> \o
                      (IF status = 407 THEN ExceptionEvents(task[f], Msg407)
                       ELSE << >>))]
       \/ /\ << f, task[f].ctx_page >> \in open_pages
          /\ task' = [task EXCEPT ![f].pc = "timeout_sleep"]
          /\ ghost' = [ghost EXCEPT ![f] = Log(@,
                << Ev("timeout", IF task[f].req.force THEN "force" ELSE "", 0),
                   Ev("api_errors_total", "timeout", 1) >>)]
       \/ \E msg \in NavErrors :
             /\ task' = [task EXCEPT ![f] = HandleException(task[f], msg)]
             /\ ghost' = [ghost EXCEPT ![f] = Log(@, ExceptionEvents(task[f], msg))]
    /\ UNCHANGED << request_semaphore, processing_requests, waiting_requests,
                    history, now, pool, proxy_type, browser, open_contexts,
                    open_pages, lookup, instances, drivers >>

\* asyncio.sleep(1) and the wait for domcontentloaded, whose failure is
\* ignored (lines 690-695).
Settle(f) ==
    /\ task[f].pc = "settle"
    /\ task' = [task EXCEPT ![f].pc = "content"]
    /\ UNCHANGED << request_semaphore, processing_requests, waiting_requests,
                    history, now, pool, proxy_type, browser, open_contexts,
                    open_pages, ghost, lookup, instances, drivers >>

\* page.content() of _handle_html_navigation and the proxy-error-page check
\* on it (lines 697-725).
Content(f) ==
    /\ task[f].pc = "content"
    /\ \/ /\ << f, task[f].ctx_page >> \in open_pages
          /\ \E body \in Bodies :
                /\ task' = [task EXCEPT ![f] =
                      IF is_proxy_error_page(body).hit
                      THEN HandlePageError(task[f], is_proxy_error_page(body).pattern)
                      ELSE Return(task[f], HtmlResponse(body, task[f].status,
                                                        get_error(task[f].status), 0))]
                /\ ghost' = [ghost EXCEPT ![f] = Log(@,
                      IF is_proxy_error_page(body).hit
                      THEN PageErrorEvents(task[f], is_proxy_error_page(body).pattern)
                      ELSE << Ev("content", body.id, 0), Ev("emit", "", 0) >>)]
       \/ \E msg \in NavErrors :
             /\ task' = [task EXCEPT ![f] = HandleException(task[f], msg)]
             /\ ghost' = [ghost EXCEPT ![f] = Log(@, ExceptionEvents(task[f], msg))]
    /\ UNCHANGED << request_semaphore, processing_requests, waiting_requests,
                    history, now, pool, proxy_type, browser, open_contexts,
                    open_pages, lookup, instances, drivers >>

\* Variant of TimeoutSleep that invalidates the proxy on a timeout (the call
\* commented out at line 462).
TimeoutSleepInvalidating(f) ==
    /\ task[f].pc = "timeout_sleep"
    /\ task' = [task EXCEPT ![f] =
          [LoopLocals(task[f]) EXCEPT !.pending = "fatal", !.reason = "timeout",
                                      !.pc = "invalidate"]]
    /\ UNCHANGED << request_semaphore, processing_requests, waiting_requests,
                    history, now, pool, proxy_type, browser, open_contexts,
                    open_pages, ghost, lookup, instances, drivers >>

\* _html_timeout_handler after its asyncio.sleep(0.5): 601 at once without
\* is_force_get_content, else force_get_content starts.
TimeoutSleep(f) ==
    /\ task[f].pc = "timeout_sleep"
    /\ task' = [task EXCEPT ![f] =
          IF task[f].req.force
          THEN [task[f] EXCEPT !.pc = "force_read", !.fattempt = 0,
                               !.html_content = EmptyBody, !.last_error = FALSE]
          ELSE Return(task[f], HtmlResponse(EmptyBody, 601, "page load timeout", 0))]
    /\ ghost' = [ghost EXCEPT ![f] = Log(@,
          IF task[f].req.force THEN << >> ELSE << Ev("emit", "", 0) >>)]
    /\ UNCHANGED << request_semaphore, processing_requests, waiting_requests,
                    history, now, pool, proxy_type, browser, open_contexts,
                    open_pages, lookup, instances, drivers >>

\* _html_timeout_handler once force_get_content returned (lines 737-774).
AfterForceRead(t) ==
    IF t.html_content # EmptyBody /\ t.html_content.long
    THEN IF is_proxy_error_page(t.html_content).hit
         THEN HandlePageError(t, is_proxy_error_page(t.html_content).pattern)
         ELSE Return(t, IF ~t.last_error
                        THEN HtmlResponse(t.html_content, 600, "page load timeout", 0)
                        ELSE HtmlResponse(t.html_content, 601,
                                          "page load failed while force read content", 0))
    ELSE Return(t, HtmlResponse(EmptyBody, 601, "page load timeout", 0))

\* One iteration of force_get_content (lines 639-655): sleep, wait, read the
\* content; a body longer than 5000 ends the loop, an exception is kept as
\* last_error.
ForceReadStep(t) ==
    IF t.html_content.long \/ t.fattempt + 1 = FORCE_READ_ATTEMPTS
    THEN AfterForceRead(t)
    ELSE [t EXCEPT !.fattempt = @ + 1]

\* What a fetch is seen to do once an iteration of force_get_content is
\* over: nothing while the loop goes on, else the proxy-page branch or the
\* result of the timeout handler.
ForceReadStepEvents(t) ==
    IF t.html_content.long \/ t.fattempt + 1 = FORCE_READ_ATTEMPTS
    THEN IF t.html_content.long /\ is_proxy_error_page(t.html_content).hit
         THEN PageErrorEvents(t, is_proxy_error_page(t.html_content).pattern)
         ELSE << Ev("emit", "", 0) >>
    ELSE << >>

ForceRead(f) ==
    /\ task[f].pc = "force_read"
    /\ \/ /\ << f, task[f].ctx_page >> \in open_pages
          /\ \E body \in Bodies :
                LET t == [task[f] EXCEPT !.html_content = body]
                IN  /\ task' = [task EXCEPT ![f] = ForceReadStep(t)]
                    /\ ghost' = [ghost EXCEPT ![f] = Log(@,
                          << Ev("force_read", body.id, t.fattempt + 1) >>
                              \o ForceReadStepEvents(t))]
       \/ LET t == [task[f] EXCEPT !.last_error = TRUE]
          IN  /\ task' = [task EXCEPT ![f] = ForceReadStep(t)]
              /\ ghost' = [ghost EXCEPT ![f] = Log(@,
                    << Ev("force_read", "error", t.fattempt + 1) >>
                        \o ForceReadStepEvents(t))]
    /\ UNCHANGED << request_semaphore, processing_requests, waiting_requests,
                    history, now, pool, proxy_type, browser, open_contexts,
                    open_pages, lookup, instances, drivers >>

\* ProxyPool.invalidate_proxy(reason) under _async_lock: the cached proxy, if
\* any, is dropped.
invalidate_proxy(p) == [p EXCEPT !.cached = NoProxy]

\* The fixed part of the page_error of an exhausted fetch; the text of the
\* last exception or pattern, which the code appends, is left out.
ProxyErrorAfter ==
    "Proxy error after " \o ToString(MAX_PROXY_RETRY_ATTEMPTS) \o " retries"
ProxyPageErrorAfter ==
    "Proxy page error after " \o ToString(MAX_PROXY_RETRY_ATTEMPTS) \o " retries"

\* Variant of AfterInvalidate whose loop allows one attempt more.
AfterInvalidateOneMore(t) ==
    IF t.pending = "fatal"
    THEN Return(t, create_error_response(602, "page load failed"))
    ELSE IF t.retry_count <= MAX_PROXY_RETRY_ATTEMPTS
         THEN [t EXCEPT !.pc = "re_close_page", !.recreating = TRUE,
                        !.pending = "", !.reason = ""]
         ELSE IF t.pending = "page"
              THEN Return(t, create_error_response(605, ProxyPageErrorAfter))
              ELSE Return(t, create_error_response(604, ProxyErrorAfter))

\* Variant of AfterInvalidate whose re-creation does not close the old
\* page and context.
AfterInvalidateKeepsOld(t) ==
    IF t.pending = "fatal"
    THEN Return(t, create_error_response(602, "page load failed"))
    ELSE IF t.retry_count < MAX_PROXY_RETRY_ATTEMPTS
         THEN [t EXCEPT !.pc = "get_proxy", !.recreating = TRUE,
                        !.pending = "", !.reason = ""]
         ELSE IF t.pending = "page"
              THEN Return(t, create_error_response(605, ProxyPageErrorAfter))
              ELSE Return(t, create_error_response(604, ProxyErrorAfter))

\* What follows the await of invalidate_proxy.  Fatal branch (lines 537-540):
\* the 602 result.  Proxy branches (lines 402-415, 518-531): a re-creation
\* while attempts remain, which first closes the old page (line 266); else
\* the 605 or 604 result.
AfterInvalidate(t) ==
    IF t.pending = "fatal"
    THEN Return(t, create_error_response(602, "page load failed"))
    ELSE IF t.retry_count < MAX_PROXY_RETRY_ATTEMPTS
         THEN [t EXCEPT !.pc = "re_close_page", !.recreating = TRUE,
                        !.pending = "", !.reason = ""]
         ELSE IF t.pending = "page"
              THEN Return(t, create_error_response(605, ProxyPageErrorAfter))
              ELSE Return(t, create_error_response(604, ProxyErrorAfter))

Invalidate(f) ==
    /\ task[f].pc = "invalidate"
    /\ pool.lock = 0
    /\ pool' = invalidate_proxy(pool)
    /\ task' = [task EXCEPT ![f] = AfterInvalidate(task[f])]
    /\ ghost' = [ghost EXCEPT ![f] = Log(@,
          << Ev("invalidate_proxy", task[f].reason, 0) >> \o
          (IF task[f].pending = "fatal"
           THEN << Ev("errors_total", "browser_error", 1),
                   Ev("api_errors_total", "browser_error", 1) >>
           ELSE IF task[f].retry_count < MAX_PROXY_RETRY_ATTEMPTS THEN << >>
           ELSE IF task[f].pending = "page"
           THEN << Ev("api_errors_total", "proxy_page_error", 1) >>
           ELSE << Ev("api_errors_total", "proxy_error", 1) >>) \o
          (IF AfterInvalidate(task[f]).pc = "fin_close_page"
           THEN << Ev("emit", "", 0) >> ELSE << >>))]
    /\ UNCHANGED << request_semaphore, processing_requests, waiting_requests,
                    history, now, proxy_type, browser, open_contexts,
                    open_pages, lookup, instances, drivers >>

\* recreate_session_with_new_proxy: old_page.close() (lines 264-268).
ReClosePage(f) ==
    /\ task[f].pc = "re_close_page"
    /\ open_pages' = open_pages \ {<< f, task[f].ctx_page >>}
    /\ task' = [task EXCEPT ![f].pc = "re_close_context"]
    /\ ghost' = [ghost EXCEPT ![f] = Log(@, << Ev("close_page", "old", 0) >>)]
    /\ UNCHANGED << request_semaphore, processing_requests, waiting_requests,
                    history, now, pool, proxy_type, browser, open_contexts,
                    lookup, instances, drivers >>

\* recreate_session_with_new_proxy: old_context.close() (lines 269-273),
\* then _get_proxy_settings(force_refresh=True) is called.
ReCloseContext(f) ==
    /\ task[f].pc = "re_close_context"
    /\ open_contexts' = open_contexts \ {<< f, task[f].ctx_context >>}
    /\ open_pages' = open_pages \ {<< f, task[f].ctx_context >>}
    /\ task' = [task EXCEPT ![f].pc = "get_proxy"]
    /\ ghost' = [ghost EXCEPT ![f] = Log(@, << Ev("close_context", "old", 0) >>)]
    /\ UNCHANGED << request_semaphore, processing_requests, waiting_requests,
                    history, now, pool, proxy_type, browser, lookup, instances, drivers >>

\* ------------------------------------------------- the finally blocks

\* A close of the inner finally raises: the exception replaces whatever was
\* in flight, the slot is released and `except Exception` makes the 603.
FinRaised(f) ==
    /\ request_semaphore' = SemRelease(request_semaphore)
    /\ task' = [task EXCEPT ![f] = OuterFinally(task[f], "error")]
    /\ processing_requests' = processing_requests - 1
    /\ ghost' = [ghost EXCEPT ![f] =
          Log([@ EXCEPT !.slots = @ - 1, !.decs = @ + 1],
              << Ev("close_failed", "", 0) >> \o OuterExceptEvents("error"))]

\* Inner finally: `if page: await page.close()` on the local page, which
\* closes it or raises.
FinClosePage(f) ==
    /\ task[f].pc = "fin_close_page"
    /\ \/ /\ open_pages' = open_pages \ {<< f, task[f].page >>}
          /\ task' = [task EXCEPT ![f].pc = "fin_close_context"]
          /\ UNCHANGED << request_semaphore, processing_requests, ghost >>
       \/ /\ task[f].page # 0
          /\ FinRaised(f)
          /\ UNCHANGED open_pages
    /\ UNCHANGED << waiting_requests, history, now, pool, proxy_type, browser,
                    open_contexts, lookup, instances, drivers >>

\* Inner finally: `if context: await context.close()` on the local context;
\* then the slot is released and the outer handlers run.
FinCloseContext(f) ==
    /\ task[f].pc = "fin_close_context"
    /\ \/ /\ open_contexts' = open_contexts \ {<< f, task[f].context >>}
          /\ open_pages' = open_pages \ {<< f, task[f].context >>}
          /\ request_semaphore' = SemRelease(request_semaphore)
          /\ task' = [task EXCEPT ![f] = OuterFinally(task[f], task[f].exc)]
          /\ processing_requests' = processing_requests - 1
          /\ ghost' = [ghost EXCEPT ![f] =
                Log([@ EXCEPT !.slots = @ - 1, !.decs = @ + 1],
                    OuterExceptEvents(task[f].exc))]
       \/ /\ task[f].context # 0
          /\ FinRaised(f)
          /\ UNCHANGED << open_contexts, open_pages >>
    /\ UNCHANGED << waiting_requests, history, now, pool, proxy_type, browser,
                    lookup, instances, drivers >>

\* Variant of HistoryWrite that returns without storing the row.
HistoryWriteSkipped(f) ==
    /\ task[f].pc = "hist_write"
    /\ task' = [task EXCEPT ![f] =
          [IdleTask EXCEPT !.pc = IF task[f].exc = "cancel"
                                  THEN "cancelled" ELSE "done",
                           !.req = task[f].req, !.result = task[f].result]]
    /\ ghost' = [ghost EXCEPT
          ![f].returned = IF task[f].exc = "cancel" THEN @ ELSE @ + 1]
    /\ UNCHANGED << request_semaphore, processing_requests, waiting_requests,
                    history, now, pool, proxy_type, browser, open_contexts,
                    open_pages, lookup, instances, drivers >>

\* create_request_history: the commit stores the row and get_html_base
\* returns result (or the CancelledError goes on), or the commit raises and
\* the exception leaves get_html_base from its finally.
HistoryWrite(f) ==
    /\ task[f].pc = "hist_write"
    /\ \/ /\ history' = Append(history,
                NewRow(task[f].req.url, task[f].req.browser_type,
                       task[f].result.page_status_code, task[f].response_body,
                       now, f))
          /\ task' = [task EXCEPT ![f] =
                [IdleTask EXCEPT !.pc = IF task[f].exc = "cancel"
                                        THEN "cancelled" ELSE "done",
                                 !.req = task[f].req, !.result = task[f].result]]
          /\ ghost' = [ghost EXCEPT ![f].rows = @ + 1,
                          ![f].returned = IF task[f].exc = "cancel" THEN @ ELSE @ + 1]
       \/ /\ task' = [task EXCEPT ![f] =
                [IdleTask EXCEPT !.pc = "raised", !.req = task[f].req]]
          /\ UNCHANGED << history, ghost >>
    /\ UNCHANGED << request_semaphore, processing_requests, waiting_requests,
                    now, pool, proxy_type, browser, open_contexts, open_pages,
                    lookup, instances, drivers >>

\* ------------------------------------------------------------ cancellation
BeforeSemaphore == {"get_proxy", "provider", "provider_sleep"}
InCreate == {"launching", "create_ctx", "create_page", "reinit"}
InInnerTry == {"setup", "goto", "settle", "content", "timeout_sleep",
               "force_read", "invalidate", "re_close_page", "re_close_context"}
Suspended == {"probe", "sem_wait"} \cup BeforeSemaphore \cup InCreate \cup InInnerTry

\* The kind of await a fetch is cancelled at: "listed" for the semaphore
\* wait, context creation, navigation, the settle sleep, the content read and
\* the proxy request of a re-creation; "other" for the rest (the cache probe,
\* the first proxy request, page setup, proxy invalidation, closing the old
\* pair).
ListedPoints ==
    {"sem_wait", "goto", "settle", "timeout_sleep", "content", "force_read"}
        \cup InCreate

CancelPoint(t) ==
    IF t.pc \in ListedPoints \/ (t.pc \in BeforeSemaphore /\ t.recreating)
    THEN "listed" ELSE "other"

\* The fetch's task is cancelled at the await it is suspended at: the
\* CancelledError skips `except Exception` and runs the finally blocks that
\* enclose the await.
Cancel(f) ==
    /\ task[f].pc \in Suspended
    /\ LET t == task[f]
           g == [ghost[f] EXCEPT !.cancel_point = CancelPoint(t)]
       IN  CASE t.pc = "probe" ->
                /\ task' = [task EXCEPT ![f] =
                      [IdleTask EXCEPT !.pc = "cancelled", !.req = Args(t.req)]]
                /\ ghost' = [ghost EXCEPT ![f] = g]
                /\ UNCHANGED << request_semaphore, processing_requests, pool >>
             [] t.pc = "sem_wait" ->
                /\ request_semaphore' =
                      WakeNext([SemLeave(request_semaphore, f) EXCEPT
                         !.value = IF f \in request_semaphore.woken THEN @ + 1 ELSE @])
                /\ task' = [task EXCEPT ![f] = OuterFinally(t, "cancel")]
                /\ processing_requests' = processing_requests - 1
                /\ ghost' = [ghost EXCEPT ![f] = [g EXCEPT !.decs = @ + 1]]
                /\ UNCHANGED pool
             [] t.pc \in BeforeSemaphore /\ ~t.recreating ->
                /\ pool' = [pool EXCEPT !.lock = IF @ = f THEN 0 ELSE @]
                /\ task' = [task EXCEPT ![f] = OuterFinally(t, "cancel")]
                /\ processing_requests' = processing_requests - 1
                /\ ghost' = [ghost EXCEPT ![f] = [g EXCEPT !.decs = @ + 1]]
                /\ UNCHANGED request_semaphore
             [] t.pc \in BeforeSemaphore /\ t.recreating ->
                /\ pool' = [pool EXCEPT !.lock = IF @ = f THEN 0 ELSE @]
                /\ task' = [task EXCEPT ![f] = InnerFinally(t, "cancel")]
                /\ ghost' = [ghost EXCEPT ![f] = g]
                /\ UNCHANGED << request_semaphore, processing_requests >>
             [] t.pc \in InCreate /\ ~t.recreating ->
                /\ task' = [task EXCEPT ![f] = OuterFinally(t, "cancel")]
                /\ request_semaphore' = SemRelease(request_semaphore)
                /\ processing_requests' = processing_requests - 1
                /\ ghost' = [ghost EXCEPT ![f] =
                                [g EXCEPT !.slots = @ - 1, !.decs = @ + 1]]
                /\ UNCHANGED pool
             [] OTHER ->
                /\ task' = [task EXCEPT ![f] = InnerFinally(t, "cancel")]
                /\ ghost' = [ghost EXCEPT ![f] = g]
                /\ UNCHANGED << request_semaphore, processing_requests, pool >>
    /\ UNCHANGED << waiting_requests, history, now, proxy_type, browser,
                    open_contexts, open_pages, lookup, instances, drivers >>

\* ----------------------------------------------------------- specification
Next ==
    \E f \in Fetches :
        \/ \E use_cache \in BOOLEAN, force \in BOOLEAN : Start(f, use_cache, force)
        \/ ProbeHit(f)
        \/ ProbeMiss(f)
        \/ ProbeFail(f)
        \/ PoolGet(f)
        \/ ProviderReply(f)
        \/ SemWake(f)
        \/ Launch(f)
        \/ CreateContext(f)
        \/ CreatePage(f)
        \/ Reinit(f)
        \/ SetupPage(f)
        \/ Goto(f)
        \/ Settle(f)
        \/ Content(f)
        \/ TimeoutSleep(f)
        \/ ForceRead(f)
        \/ Invalidate(f)
        \/ ReClosePage(f)
        \/ ReCloseContext(f)
        \/ FinClosePage(f)
        \/ FinCloseContext(f)
        \/ HistoryWrite(f)
        \/ Cancel(f)

Spec == Init /\ [][Next]_vars

\* --------------------------------------------- a burst with no invalidation
\* SpecBurst is Spec without the steps that call invalidate_proxy: its
\* behaviours are the behaviours of Spec during which no invalidation occurs
\* (a fetch that would invalidate goes no further).
NextBurst ==
    \E f \in Fetches :
        \/ \E use_cache \in BOOLEAN, force \in BOOLEAN : Start(f, use_cache, force)
        \/ ProbeHit(f)
        \/ ProbeMiss(f)
        \/ ProbeFail(f)
        \/ PoolGet(f)
        \/ ProviderReply(f)
        \/ SemWake(f)
        \/ Launch(f)
        \/ CreateContext(f)
        \/ CreatePage(f)
        \/ Reinit(f)
        \/ SetupPage(f)
        \/ Goto(f)
        \/ Settle(f)
        \/ Content(f)
        \/ TimeoutSleep(f)
        \/ ForceRead(f)
        \/ FinClosePage(f)
        \/ FinCloseContext(f)
        \/ HistoryWrite(f)
        \/ Cancel(f)

SpecBurst == Init /\ [][NextBurst]_vars

\* ------------------------------------------------- one fetch, observed
\* SpecOne runs the first fetch alone and keeps the sequence of its events.
\* A lone fetch never queues at the semaphore, so SemWake has no step here.
NavigationEvents ==
    {"get_proxy", "goto", "response", "timeout", "exception", "proxy_page",
     "content", "proxy_retry_total", "invalidate_proxy", "errors_total", "emit",
     "close_failed"}

InitOne ==
    /\ task = [f \in Fetches |-> IdleTask]
    /\ request_semaphore = [value |-> MaxConcurrent, waiters |-> << >>, woken |-> {}]
    /\ processing_requests = 0
    /\ waiting_requests = 0
    /\ history \in {<< >>, << OldRow >>}
    /\ now = 0
    /\ pool = [cached |-> NoProxy, lock |-> 0]
    /\ proxy_type \in ProxyTypes
    /\ browser = [initialized |-> FALSE]
    /\ open_contexts = {}
    /\ open_pages = {}
    /\ ghost = [f \in Fetches |->
                  IF f = 1 THEN [IdleGhost EXCEPT !.traced = NavigationEvents]
                  ELSE IdleGhost]
    /\ lookup = [asked |-> FALSE, url |-> "", browser_type |-> "", row |-> NoRow]
    /\ instances = [e \in EngineClasses |-> NewInstance]
    /\ drivers = [e \in EngineClasses |-> << >>]

\* SpecForce observes the timeout branch of the same fetch: the reads of
\* force_get_content and what the timeout handler makes of them.
ForceEvents ==
    {"goto", "timeout", "force_read", "proxy_page", "emit", "close_failed"}

InitForce ==
    /\ task = [f \in Fetches |-> IdleTask]
    /\ request_semaphore = [value |-> MaxConcurrent, waiters |-> << >>, woken |-> {}]
    /\ processing_requests = 0
    /\ waiting_requests = 0
    /\ history \in {<< >>, << OldRow >>}
    /\ now = 0
    /\ pool = [cached |-> NoProxy, lock |-> 0]
    /\ proxy_type \in ProxyTypes
    /\ browser = [initialized |-> FALSE]
    /\ open_contexts = {}
    /\ open_pages = {}
    /\ ghost = [f \in Fetches |->
                  IF f = 1 THEN [IdleGhost EXCEPT !.traced = ForceEvents]
                  ELSE IdleGhost]
    /\ lookup = [asked |-> FALSE, url |-> "", browser_type |-> "", row |-> NoRow]
    /\ instances = [e \in EngineClasses |-> NewInstance]
    /\ drivers = [e \in EngineClasses |-> << >>]

\* SpecCreate observes the calls of _create_browser_page of the same fetch.
CreateEvents ==
    {"create_browser_page", "create_failed", "browser_reinitializations_total",
     "cleanup_all_browsers", "launch_failed", "created", "goto",
     "setup_failed", "close_failed"}

InitCreate ==
    /\ task = [f \in Fetches |-> IdleTask]
    /\ request_semaphore = [value |-> MaxConcurrent, waiters |-> << >>, woken |-> {}]
    /\ processing_requests = 0
    /\ waiting_requests = 0
    /\ history \in {<< >>, << OldRow >>}
    /\ now = 0
    /\ pool = [cached |-> NoProxy, lock |-> 0]
    /\ proxy_type \in ProxyTypes
    /\ browser = [initialized |-> FALSE]
    /\ open_contexts = {}
    /\ open_pages = {}
    /\ ghost = [f \in Fetches |->
                  IF f = 1 THEN [IdleGhost EXCEPT !.traced = CreateEvents]
                  ELSE IdleGhost]
    /\ lookup = [asked |-> FALSE, url |-> "", browser_type |-> "", row |-> NoRow]
    /\ instances = [e \in EngineClasses |-> NewInstance]
    /\ drivers = [e \in EngineClasses |-> << >>]

NextOne ==
    \/ \E use_cache \in BOOLEAN, force \in BOOLEAN : Start(1, use_cache, force)
    \/ ProbeHit(1)
    \/ ProbeMiss(1)
    \/ ProbeFail(1)
    \/ PoolGet(1)
    \/ ProviderReply(1)
    \/ Launch(1)
    \/ CreateContext(1)
    \/ CreatePage(1)
    \/ Reinit(1)
    \/ SetupPage(1)
    \/ Goto(1)
    \/ Settle(1)
    \/ Content(1)
    \/ TimeoutSleep(1)
    \/ ForceRead(1)
    \/ Invalidate(1)
    \/ ReClosePage(1)
    \/ ReCloseContext(1)
    \/ FinClosePage(1)
    \/ FinCloseContext(1)
    \/ HistoryWrite(1)
    \/ Cancel(1)

SpecOne == InitOne /\ [][NextOne]_vars

SpecForce == InitForce /\ [][NextOne]_vars

SpecCreate == InitCreate /\ [][NextOne]_vars

\* The state before the first request, with fetch 1 observed on the event
\* kinds given.
InitObserving(kinds) ==
    /\ task = [f \in Fetches |-> IdleTask]
    /\ request_semaphore = [value |-> MaxConcurrent, waiters |-> << >>, woken |-> {}]
    /\ processing_requests = 0
    /\ waiting_requests = 0
    /\ history \in {<< >>, << OldRow >>}
    /\ now = 0
    /\ pool = [cached |-> NoProxy, lock |-> 0]
    /\ proxy_type \in ProxyTypes
    /\ browser = [initialized |-> FALSE]
    /\ open_contexts = {}
    /\ open_pages = {}
    /\ ghost = [f \in Fetches |->
                  IF f = 1 THEN [IdleGhost EXCEPT !.traced = kinds] ELSE IdleGhost]
    /\ lookup = [asked |-> FALSE, url |-> "", browser_type |-> "", row |-> NoRow]
    /\ instances = [e \in EngineClasses |-> NewInstance]
    /\ drivers = [e \in EngineClasses |-> << >>]

\* SpecAcquire observes how a fetch gets its proxy and what it creates its
\* contexts with, the get being allowed to raise.
AcquireEvents ==
    {"get_proxy", "get_proxy_raised", "proxy_failures_total",
     "create_browser_page", "create_context", "goto", "close_failed"}

NextAcquire ==
    \/ NextOne
    \/ PoolGetRaises(1)

SpecAcquire == InitObserving(AcquireEvents) /\ [][NextAcquire]_vars

\* SpecRecreate observes the steps between two navigations of a fetch.
RecreateEvents ==
    {"goto", "invalidate_proxy", "close_page", "close_context", "get_proxy",
     "create_browser_page", "created", "close_failed"}

SpecRecreate == InitObserving(RecreateEvents) /\ [][NextOne]_vars

\* ------------------------------------------------ ProxyPool on its own
\* SpecPool has the fetches call the pool directly, in any order:
\* get_proxy with and without force_refresh, invalidate_proxy and shutdown.
\* A caller keeps the argument of its last get_proxy in task.recreating and
\* the value returned in task.proxy_item.

\* The proxy servers the provider hands out.
Servers == {1, 2}

\* ProxyManager.get_proxy: the provider's answer for dynamic (get_api loops
\* until it has a non-empty one), static_proxy for static, None otherwise.
SourceYields ==
    CASE proxy_type = "dynamic" -> Servers
      [] proxy_type = "static" -> {1}
      [] OTHER -> {0}

\* Variant of CachedProxy with the default reuse_count of the dataclass.
CachedProxyDefault(server) == [server |-> server, reuse_count |-> 0]

\* CachedProxy(server=proxy, proxy_type=..., reuse_count=1).
CachedProxy(server) == [server |-> server, reuse_count |-> 1]

\* _record_proxy_reuse_stats: one observation of the reuse count of the
\* cached proxy in the histogram proxy_reuse_count, when there is one and
\* its count is positive.
record_proxy_reuse_stats(p) ==
    IF p.cached # NoProxy /\ p.cached.reuse_count > 0
    THEN << Ev("proxy_reuse_count", "", p.cached.reuse_count) >>
    ELSE << >>

\* Variant of record_proxy_reuse_stats that observes nothing.
RecordNothing(p) == << >>

\* Reasons the callers of SpecPool give to invalidate_proxy.
InvalidateReasons == {"tunnel_failed", "browser_error"}

\* SpecPool observes the metrics of the pool and the proxies installed, in
\* the log of the caller whose call did it.
PoolEvents == {"installed", "proxy_reuse_count", "proxy_switch_total"}

\* The tail of ProxyPool.get_proxy (lines 310-322): install the proxy the
\* source yielded, or empty the pool when it yielded none; return it.
InstallProxy(f, server, force_refresh, g) ==
    /\ pool' = [cached |-> IF server # 0 THEN CachedProxy(server) ELSE NoProxy,
                lock |-> 0]
    /\ task' = [task EXCEPT ![f].pc = "idle", ![f].proxy_item = server,
                            ![f].recreating = force_refresh,
                            ![f].pending = "", ![f].reason = ""]
    /\ ghost' = [ghost EXCEPT ![f] =
          Log([g EXCEPT !.pool_gets = @ + 1],
              IF server # 0
              THEN << Ev("installed", "", CachedProxy(server).reuse_count) >>
              ELSE << >>)]

\* ProxyPool.get_proxy(force_refresh) up to its return or to the await of
\* the provider.
\* Variant of get_proxy that awaits the provider without holding the lock.
get_proxy_unlocked(f, force_refresh) ==
    /\ task[f].pc = "idle"
    /\ ghost[f].pool_gets < MaxCalls
    /\ proxy_type = "dynamic"
    /\ pool' = pool
    /\ task' = [task EXCEPT ![f].pc = "provider",
                            ![f].recreating = force_refresh]
    /\ ghost' = [ghost EXCEPT ![f] = Log(@, record_proxy_reuse_stats(pool))]
    /\ UNCHANGED << request_semaphore, processing_requests, waiting_requests,
                    history, now, proxy_type, browser, open_contexts,
                    open_pages, lookup, instances, drivers >>

get_proxy(f, force_refresh) ==
    /\ task[f].pc = "idle"
    /\ pool.lock = 0
    /\ ghost[f].pool_gets < MaxCalls
    /\ IF pool.cached # NoProxy /\ ~force_refresh
       THEN /\ pool' = [pool EXCEPT !.cached.reuse_count = @ + 1]
            /\ task' = [task EXCEPT ![f].proxy_item = pool.cached.server,
                                    ![f].recreating = force_refresh,
                                    ![f].pending = "", ![f].reason = ""]
            /\ ghost' = [ghost EXCEPT ![f].pool_gets = @ + 1]
       ELSE IF proxy_type = "dynamic"
            THEN /\ pool' = [pool EXCEPT !.lock = f]
                 /\ task' = [task EXCEPT ![f].pc = "provider",
                                         ![f].recreating = force_refresh,
                                         ![f].pending = "", ![f].reason = ""]
                 /\ ghost' = [ghost EXCEPT ![f] = Log(@, record_proxy_reuse_stats(pool))]
            ELSE \E server \in SourceYields :
                    InstallProxy(f, server, force_refresh,
                                 Log(ghost[f], record_proxy_reuse_stats(pool)))
    /\ UNCHANGED << request_semaphore, processing_requests, waiting_requests,
                    history, now, proxy_type, browser, open_contexts,
                    open_pages, lookup, instances, drivers >>

\* ProxyManager.get_api answers the caller that holds the lock.
get_api(f) ==
    /\ task[f].pc = "provider"
    /\ pool.lock = f
    /\ \E server \in SourceYields :
          InstallProxy(f, server, task[f].recreating, ghost[f])
    /\ UNCHANGED << request_semaphore, processing_requests, waiting_requests,
                    history, now, proxy_type, browser, open_contexts,
                    open_pages, lookup, instances, drivers >>

\* The caller suspended in get_api is cancelled: `async with` releases the
\* lock, the pool stays as it is, and the caller makes no more calls.
cancel_get(f) ==
    /\ task[f].pc = "provider"
    /\ pool.lock = f
    /\ pool' = [pool EXCEPT !.lock = 0]
    /\ task' = [task EXCEPT ![f].pc = "cancelled"]
    /\ UNCHANGED << request_semaphore, processing_requests, waiting_requests,
                    history, now, proxy_type, browser, open_contexts,
                    open_pages, ghost, lookup, instances, drivers >>

\* ProxyPool.invalidate_proxy(reason), called by f (task.pending and
\* task.reason tell that the caller's last call was this one): with a
\* cached proxy its
\* reuse count is observed, proxy_switch_total{reason} incremented and the
\* proxy dropped; with none nothing is done.
CallInvalidate(f, reason) ==
    /\ task[f].pc = "idle"
    /\ pool.lock = 0
    /\ pool' = invalidate_proxy(pool)
    /\ ghost' = [ghost EXCEPT ![f] = Log(@,
          IF pool.cached # NoProxy
          THEN record_proxy_reuse_stats(pool) \o
               << Ev("proxy_switch_total", reason, 1) >>
          ELSE << >>)]
    /\ task' = [task EXCEPT ![f].pending = "invalidate_proxy",
                            ![f].reason = reason]
    /\ UNCHANGED << request_semaphore, processing_requests,
                    waiting_requests, history, now, proxy_type, browser,
                    open_contexts, open_pages, lookup, instances, drivers >>

\* ProxyPool.shutdown(), called by f.
shutdown(f) ==
    /\ task[f].pc = "idle"
    /\ pool.lock = 0
    /\ pool' = [pool EXCEPT !.cached = NoProxy]
    /\ ghost' = [ghost EXCEPT ![f] = Log(@, record_proxy_reuse_stats(pool))]
    /\ task' = [task EXCEPT ![f].pending = "", ![f].reason = ""]
    /\ UNCHANGED << request_semaphore, processing_requests,
                    waiting_requests, history, now, proxy_type, browser,
                    open_contexts, open_pages, lookup, instances, drivers >>

InitPool ==
    /\ task = [f \in Fetches |-> IdleTask]
    /\ request_semaphore = [value |-> MaxConcurrent, waiters |-> << >>, woken |-> {}]
    /\ processing_requests = 0
    /\ waiting_requests = 0
    /\ history = << >>
    /\ now = 0
    /\ pool = [cached |-> NoProxy, lock |-> 0]
    /\ proxy_type \in ProxyTypes
    /\ browser = [initialized |-> FALSE]
    /\ open_contexts = {}
    /\ open_pages = {}
    /\ ghost = [f \in Fetches |-> IdleGhost]
    /\ lookup = [asked |-> FALSE, url |-> "", browser_type |-> "", row |-> NoRow]
    /\ instances = [e \in EngineClasses |-> NewInstance]
    /\ drivers = [e \in EngineClasses |-> << >>]

NextPool ==
    \E f \in Fetches :
        \/ \E force_refresh \in BOOLEAN : get_proxy(f, force_refresh)
        \/ get_api(f)
        \/ cancel_get(f)
        \/ \E reason \in InvalidateReasons : CallInvalidate(f, reason)
        \/ shutdown(f)

SpecPool == InitPool /\ [][NextPool]_vars

\* The pool alone with its metrics observed: every caller has already made
\* all but MetricCalls of its gets.
MetricCalls == 2

InitPoolMetrics ==
    /\ task = [f \in Fetches |-> IdleTask]
    /\ request_semaphore = [value |-> MaxConcurrent, waiters |-> << >>, woken |-> {}]
    /\ processing_requests = 0
    /\ waiting_requests = 0
    /\ history = << >>
    /\ now = 0
    /\ pool = [cached |-> NoProxy, lock |-> 0]
    /\ proxy_type \in ProxyTypes
    /\ browser = [initialized |-> FALSE]
    /\ open_contexts = {}
    /\ open_pages = {}
    /\ ghost = [f \in Fetches |->
          [IdleGhost EXCEPT !.traced = PoolEvents,
                            !.pool_gets = MaxCalls - MetricCalls]]
    /\ lookup = [asked |-> FALSE, url |-> "", browser_type |-> "", row |-> NoRow]
    /\ instances = [e \in EngineClasses |-> NewInstance]
    /\ drivers = [e \in EngineClasses |-> << >>]

SpecPoolMetrics == InitPoolMetrics /\ [][NextPool]_vars

\* ---------------------------------------- the pool as fetches call it
\* SpecPoolFetches lets the callers use the pool the way a fetch does: one
\* get_proxy(force_refresh=False) for its first context, invalidate_proxy
\* when the context created with the proxy it was given fails, and
\* get_proxy(force_refresh=True) for the context that replaces it.
\* task.proxy_item is the proxy the caller's context was created with.

\* _get_proxy_settings(force_refresh=False) of get_html_base (line 831).
first_proxy(f) ==
    /\ ghost[f].pool_gets = 0
    /\ get_proxy(f, FALSE)

\* The failure branches of the retry loop (lines 402, 513, 537) call
\* invalidate_proxy(reason) once per failed navigation.
failed_navigation(f) ==
    /\ ghost[f].pool_gets > 0
    /\ task[f].pending # "invalidate_proxy"
    /\ \E reason \in InvalidateReasons : CallInvalidate(f, reason)

\* _get_proxy_settings(force_refresh=True) of
\* recreate_session_with_new_proxy (line 276), after an invalidate.
refreshed_proxy(f) ==
    /\ task[f].pending = "invalidate_proxy"
    /\ get_proxy(f, TRUE)

NextPoolFetches ==
    \E f \in Fetches :
        \/ first_proxy(f)
        \/ get_api(f)
        \/ failed_navigation(f)
        \/ refreshed_proxy(f)

SpecPoolFetches == InitPool /\ [][NextPoolFetches]_vars

\* ------------------------------------------- the cache lookup on its own
\* SpecLookup applies get_request_history to every store of at most MaxRows
\* rows, written no later than the current day.
LookupStatuses == {200, 404}

LookupRows(today) ==
    { NewRow(url, browser_type, status_code, EmptyBody, created_at, 0) :
        url \in Urls, browser_type \in Engines,
        status_code \in LookupStatuses, created_at \in 0 .. today }

InitLookup ==
    /\ task = [f \in Fetches |-> IdleTask]
    /\ request_semaphore = [value |-> MaxConcurrent, waiters |-> << >>, woken |-> {}]
    /\ processing_requests = 0
    /\ waiting_requests = 0
    /\ now \in 0 .. MaxDay
    /\ history \in UNION { [1 .. n -> LookupRows(now)] : n \in 0 .. MaxRows }
    /\ pool = [cached |-> NoProxy, lock |-> 0]
    /\ proxy_type = "none"
    /\ browser = [initialized |-> FALSE]
    /\ open_contexts = {}
    /\ open_pages = {}
    /\ ghost = [f \in Fetches |-> IdleGhost]
    /\ lookup = [asked |-> FALSE, url |-> "", browser_type |-> "", row |-> NoRow]
    /\ instances = [e \in EngineClasses |-> NewInstance]
    /\ drivers = [e \in EngineClasses |-> << >>]

\* RequestHistoryModel.get_request_history(url, browser_type) answers.
Lookup(url, browser_type) ==
    /\ \E i \in get_request_history(history, url, browser_type, now) :
          lookup' = [asked |-> TRUE, url |-> url, browser_type |-> browser_type,
                     row |-> i]
    /\ UNCHANGED << task, request_semaphore, processing_requests,
                    waiting_requests, history, now, pool, proxy_type, browser,
                    open_contexts, open_pages, ghost, instances, drivers >>

NextLookup == \E url \in Urls, browser_type \in Engines : Lookup(url, browser_type)

SpecLookup == InitLookup /\ [][NextLookup]_vars

\* ------------------------------------------- the browser instances alone
\* SpecBrowser runs ensure_initialized and close on the instance of each
\* engine class, one call at a time per instance, against a driver whose
\* launch, close and stop may each raise.

\* FirefoxBrowser (line 41) and WebKitBrowser (line 42) store the started
\* driver in self.playwright; ChromeBrowser keeps it in a local (line 41).
StoresHandle(e) == e \in {"firefox", "webkit"}

\* Only WebKitBrowser.initialize wraps the launch in try/except.
CleansUpOnFailure(e) == e = "webkit"

\* BaseBrowser.is_initialized.
is_initialized(b) == b.initialized /\ b.browser # NoHandle

\* A driver async_playwright().start() has just returned.
NewDriver == [running |-> TRUE, stops |-> 0, launched |-> FALSE, closes |-> 0]

Others == << task, request_semaphore, processing_requests, waiting_requests,
             history, now, pool, proxy_type, browser, open_contexts, open_pages,
             ghost, lookup >>

\* The instances of the engine classes share no state, so SpecBrowser
\* exercises one of them in a behaviour: no call was made on another.
OnlyUser(e) ==
    \A o \in EngineClasses \ {e} :
        instances[o] = NewInstance /\ drivers[o] = << >>

\* ensure_initialized on an instance that is not initialized, up to the
\* launch: initialize awaits async_playwright().start(), which returns a new
\* driver or raises.
ensure_initialized(e) ==
    /\ OnlyUser(e)
    /\ instances[e].pc = "idle"
    /\ ~is_initialized(instances[e])
    /\ Len(drivers[e]) < MaxStarts
    /\ \/ /\ drivers' = [drivers EXCEPT ![e] = Append(@, NewDriver)]
          /\ instances' = [instances EXCEPT
                ![e].pc = "launch",
                ![e].started = Len(drivers[e]) + 1,
                ![e].playwright = IF StoresHandle(e) THEN Len(drivers[e]) + 1 ELSE @,
                ![e].outcome = ""]
       \/ /\ instances' = [instances EXCEPT ![e].outcome = "start_failed"]
          /\ UNCHANGED drivers
    /\ UNCHANGED Others

\* <engine>.launch(...) returns a browser, which initialize returns and
\* ensure_initialized stores (lines 117-118), or raises: chrome and firefox
\* let the exception through, webkit goes on to stop the driver.
launch(e) ==
    /\ instances[e].pc = "launch"
    /\ \/ /\ drivers' = [drivers EXCEPT ![e][instances[e].started].launched = TRUE]
          /\ instances' = [instances EXCEPT
                ![e].pc = "idle",
                ![e].browser = instances[e].started,
                ![e].initialized = TRUE,
                ![e].outcome = "initialized"]
       \/ /\ instances' = [instances EXCEPT
                ![e].pc = IF CleansUpOnFailure(e) THEN "cleanup" ELSE "idle",
                ![e].outcome = IF CleansUpOnFailure(e) THEN "" ELSE "launch_failed"]
          /\ UNCHANGED drivers
    /\ UNCHANGED Others

\* The except branch of WebKitBrowser.initialize: self.playwright.stop() is
\* awaited, an exception of it is dropped, the handle is cleared and the
\* launch error is raised again.
cleanup(e) ==
    /\ instances[e].pc = "cleanup"
    /\ \E stopped \in BOOLEAN :
          drivers' = [drivers EXCEPT
                ![e][instances[e].playwright].stops = @ + 1,
                ![e][instances[e].playwright].running = ~stopped]
    /\ instances' = [instances EXCEPT ![e].pc = "idle",
                                      ![e].playwright = NoHandle,
                                      ![e].outcome = "launch_failed"]
    /\ UNCHANGED Others

\* BaseBrowser.close from `if self.playwright:` on, given the fields b.
CloseDriver(b) ==
    IF b.playwright # NoHandle
    THEN [b EXCEPT !.pc = "playwright_stop"]
    ELSE [b EXCEPT !.pc = "idle", !.initialized = FALSE, !.outcome = "closed"]

\* BaseBrowser.close is called, up to its first await.
close(e) ==
    /\ OnlyUser(e)
    /\ instances[e].pc = "idle"
    /\ instances' = [instances EXCEPT ![e] =
          IF instances[e].browser # NoHandle
          THEN [@ EXCEPT !.pc = "browser_close", !.held = instances[e].browser,
                         !.outcome = ""]
          ELSE CloseDriver([@ EXCEPT !.held = NoHandle, !.outcome = ""])]
    /\ UNCHANGED << drivers, Others >>

\* self.browser.close() returns and close goes on, or raises out of close.
browser_close(e) ==
    /\ instances[e].pc = "browser_close"
    /\ \/ /\ drivers' = [drivers EXCEPT
                ![e][instances[e].browser].closes = @ + 1,
                ![e][instances[e].browser].launched = FALSE]
          /\ instances' = [instances EXCEPT ![e] =
                CloseDriver([@ EXCEPT !.browser = NoHandle])]
       \/ /\ instances' = [instances EXCEPT ![e].pc = "idle",
                                            ![e].outcome = "close_raised"]
          /\ UNCHANGED drivers
    /\ UNCHANGED Others

\* self.playwright.stop() returns and close finishes, or raises out of close.
playwright_stop(e) ==
    /\ instances[e].pc = "playwright_stop"
    /\ \/ /\ drivers' = [drivers EXCEPT
                ![e][instances[e].playwright].stops = @ + 1,
                ![e][instances[e].playwright].running = FALSE]
          /\ instances' = [instances EXCEPT ![e].pc = "idle",
                                            ![e].playwright = NoHandle,
                                            ![e].initialized = FALSE,
                                            ![e].outcome = "closed"]
       \/ /\ drivers[e][instances[e].playwright].stops < MaxStops
          /\ drivers' = [drivers EXCEPT ![e][instances[e].playwright].stops = @ + 1]
          /\ instances' = [instances EXCEPT ![e].pc = "idle",
                                            ![e].outcome = "close_raised"]
    /\ UNCHANGED Others

NextBrowser ==
    \E e \in EngineClasses :
        \/ ensure_initialized(e)
        \/ launch(e)
        \/ cleanup(e)
        \/ close(e)
        \/ browser_close(e)
        \/ playwright_stop(e)

\* No fetch runs under SpecBrowser: the store is empty and no proxy source
\* is configured.
InitBrowser == Init /\ history = << >> /\ proxy_type = "none"

SpecBrowser == InitBrowser /\ [][NextBrowser]_vars

\* ----------------------------------------- the browser manager with callers
\* SpecManager runs BrowserManager (get_browser, _cleanup_monitor,
\* cleanup_all_browsers), BrowserFactory and the instances under concurrent
\* callers: the fetches, and the reaper task.  In it the variable browser
\* holds the manager's fields, the registry BrowserFactory._instances and
\* the call each caller is in; the driver's operations all succeed.

Reaper == 0
Callers == Fetches \cup {Reaper}

\* Calls of BrowserManager.get_browser each fetch of SpecManager makes.
MaxAcquires == 2

\* The call of a caller: where it is suspended, the engine it asked for,
\* the driver its initialize started, the browser handle get_browser
\* returned to it or, inside close, the handle its close is closing, the
\* dict iterator of close_all_browsers (items left, size at its start), and
\* the number of get_browser calls it has made.
NoCall ==
    [pc |-> "idle", engine |-> "", started |-> NoHandle, held |-> NoHandle,
     todo |-> << >>, used |-> 0, n |-> 0]

\* BrowserManager.__init__ and BrowserFactory._instances = {}.  idle tells
\* that more than _idle_timeout has passed since last_request_time; cancel
\* that cancel() was called on the reaper task and not delivered yet, and
\* before which fetches may still run ahead of that delivery.
NewManager ==
    [initialized |-> FALSE, last_request_time |-> FALSE, idle |-> FALSE,
     registry |-> << >>, cancel |-> FALSE, before |-> {},
     calls |-> [c \in Callers |->
                  IF c = Reaper THEN [NoCall EXCEPT !.pc = "none"] ELSE NoCall]]

World == [m |-> browser, i |-> instances, d |-> drivers]

Becomes(S) ==
    /\ browser' = S.m
    /\ instances' = S.i
    /\ drivers' = S.d
    /\ UNCHANGED << task, request_semaphore, processing_requests,
                    waiting_requests, history, now, pool, proxy_type,
                    open_contexts, open_pages, ghost, lookup >>

\* The callers in initialize or in close on the instance of e.
Initializing(m, e) ==
    {c \in Callers : m.calls[c].engine = e /\ m.calls[c].pc \in {"start", "launch"}}
Closing(m, e) ==
    {c \in Callers : /\ m.calls[c].pc \in {"browser_close", "playwright_stop"}
                     /\ Head(m.calls[c].todo) = e}

\* The event loop runs ready callbacks in order: once cancel() was called on
\* the reaper, only the fetches that were already waiting may run before
\* the reaper gets its CancelledError, each for one step.
Runs(c) == ~browser.cancel \/ c \in browser.before
Ran(m, c) == [m EXCEPT !.before = @ \ {c}]

\* BrowserManager.get_browser after ensure_initialized has returned:
\* last_request_time = now, and a reaper task is created when there is none
\* or the last one is done.
Acquired(m) ==
    [m EXCEPT !.last_request_time = TRUE, !.idle = FALSE,
              !.calls[Reaper] = IF @.pc \in {"none", "done"}
                                THEN [NoCall EXCEPT !.pc = "sleep"] ELSE @]

\* BrowserManager.get_browser(e) called by f, up to its first await:
\* BrowserFactory.get_browser registers a new instance when the engine has
\* none, ensure_initialized returns at once on an initialized instance and
\* awaits async_playwright().start() otherwise.  The call is "blocked"
\* where the model cannot follow it: the fetch has made its MaxAcquires
\* calls, MaxStarts drivers were started, or the new instance would replace
\* one a call is still running on.
GetBrowser(S, f, e) ==
    LET known == \E k \in 1..Len(S.m.registry) : S.m.registry[k] = e
        i1 == IF known THEN S.i ELSE [S.i EXCEPT ![e] = NewInstance]
        m1 == IF known THEN S.m ELSE [S.m EXCEPT !.registry = Append(@, e)]
        n == S.m.calls[f].n + 1
    IN  IF \/ n > MaxAcquires
           \/ ~is_initialized(i1[e]) /\ Len(S.d[e]) >= MaxStarts
           \/ ~known /\ Initializing(S.m, e) \cup Closing(S.m, e) # {}
        THEN [S EXCEPT !.m.calls[f].pc = "blocked"]
        ELSE IF is_initialized(i1[e])
        THEN [S EXCEPT !.m = Acquired([m1 EXCEPT
                        !.calls[f] = [NoCall EXCEPT !.engine = e, !.n = n,
                                                    !.held = i1[e].browser]]),
                       !.i = i1]
        ELSE [S EXCEPT !.m = [m1 EXCEPT
                        !.calls[f] = [NoCall EXCEPT !.pc = "start",
                                                    !.engine = e, !.n = n]],
                       !.i = i1]

\* BrowserManager.cleanup_all_browsers after close_all_browsers has
\* returned: last_request_time = None, cancel() on a reaper task that is
\* not done.  The reaper itself then breaks out of its loop and is done; a
\* fetch in _create_browser_page goes round its loop to get_browser again.
AfterCloseAll(S, c) ==
    LET m1 == [S.m EXCEPT !.registry = << >>, !.last_request_time = FALSE,
                          !.idle = FALSE]
    IN  IF c = Reaper
        THEN [S EXCEPT !.m = [m1 EXCEPT !.calls[Reaper] = [NoCall EXCEPT !.pc = "done"]]]
        ELSE GetBrowser(
               [S EXCEPT !.m = IF m1.calls[Reaper].pc \in {"none", "done"}
                               THEN m1
                               ELSE [m1 EXCEPT !.cancel = TRUE,
                                               !.before = Fetches \ {c}]],
               c, S.m.calls[c].engine)

\* BrowserFactory.close_all_browsers and BaseBrowser.close, from one await
\* of the caller to its next.  The dict iterator raises RuntimeError when
\* the registry changed size since the loop began; the error ends the
\* reaper task, and leaves _create_browser_page through its except block.
RECURSIVE NextInstance(_, _), CloseDriverOf(_, _)
NextInstance(S0, c) ==
    LET S == [S0 EXCEPT !.m.calls[c].pc = "closing"]
        call == S.m.calls[c]
    IN  IF Len(S.m.registry) # call.used
        THEN [S EXCEPT !.m.calls[c] =
                IF c = Reaper THEN [NoCall EXCEPT !.pc = "done"]
                ELSE [NoCall EXCEPT !.n = call.n]]
        ELSE IF call.todo = << >>
        THEN AfterCloseAll(S, c)
        ELSE IF S.i[Head(call.todo)].browser # NoHandle
        THEN [S EXCEPT !.m.calls[c].pc = "browser_close",
                       !.m.calls[c].held = S.i[Head(call.todo)].browser]
        ELSE CloseDriverOf(S, c)

\* BaseBrowser.close from `if self.playwright:` on.
CloseDriverOf(S, c) ==
    LET e == Head(S.m.calls[c].todo) IN
    IF S.i[e].playwright # NoHandle
    THEN [S EXCEPT !.m.calls[c].pc = "playwright_stop",
                   !.m.calls[c].held = S.i[e].playwright]
    ELSE NextInstance([S EXCEPT !.i[e].initialized = FALSE,
                                !.m.calls[c].todo = Tail(@)], c)

\* close_all_browsers begins: the iterator takes the registry as it is.
CloseAll(S, c) ==
    NextInstance([S EXCEPT !.m.calls[c].todo = S.m.registry,
                           !.m.calls[c].used = Len(S.m.registry)], c)

\* A fetch calls browser_manager.get_browser(e).
get_browser(f, e) ==
    /\ browser.calls[f].pc = "idle"
    /\ Runs(f)
    /\ LET S == GetBrowser([World EXCEPT !.m = Ran(@, f)], f, e)
       IN S.m.calls[f].pc # "blocked" /\ Becomes(S)

\* async_playwright().start() returns to initialize.
initialize_start(f) ==
    /\ browser.calls[f].pc = "start"
    /\ Runs(f)
    /\ LET e == browser.calls[f].engine
           k == Len(drivers[e]) + 1
       IN Becomes([m |-> [Ran(browser, f) EXCEPT !.calls[f].pc = "launch",
                                                 !.calls[f].started = k],
                   i |-> [instances EXCEPT
                            ![e].playwright = IF StoresHandle(e) THEN k ELSE @],
                   d |-> [drivers EXCEPT ![e] = Append(@, NewDriver)]])

\* <engine>.launch(...) returns: initialize returns the browser,
\* ensure_initialized stores it and get_browser finishes.
initialize_launch(f) ==
    /\ browser.calls[f].pc = "launch"
    /\ Runs(f)
    /\ LET e == browser.calls[f].engine
           k == browser.calls[f].started
       IN Becomes([m |-> Acquired([Ran(browser, f) EXCEPT
                            !.calls[f] = [NoCall EXCEPT !.engine = e,
                                                        !.n = browser.calls[f].n,
                                                        !.held = k]]),
                   i |-> [instances EXCEPT ![e].browser = k,
                                           ![e].initialized = TRUE],
                   d |-> [drivers EXCEPT ![e][k].launched = TRUE]])

\* create_context on the browser f got raised a closed-browser error on the
\* first attempt of _create_browser_page: f awaits cleanup_all_browsers
\* (and has a get_browser call and a driver start left for the second
\* attempt).
stale_recovery(f) ==
    /\ browser.calls[f].pc = "idle"
    /\ browser.calls[f].engine # ""
    /\ browser.calls[f].n < MaxAcquires
    /\ Len(drivers[browser.calls[f].engine]) < MaxStarts
    /\ Runs(f)
    /\ LET S == CloseAll([World EXCEPT !.m = Ran(@, f)], f)
       IN S.m.calls[f].pc # "blocked" /\ Becomes(S)

\* self.browser.close() returns to close, called by c.
browser_close_returns(c) ==
    /\ browser.calls[c].pc = "browser_close"
    /\ Runs(c)
    /\ LET e == Head(browser.calls[c].todo)
           k == browser.calls[c].held
           S == CloseDriverOf(
                  [m |-> Ran(browser, c),
                   i |-> [instances EXCEPT ![e].browser = NoHandle],
                   d |-> [drivers EXCEPT ![e][k].closes = @ + 1,
                                         ![e][k].launched = FALSE]], c)
       IN S.m.calls[c].pc # "blocked" /\ Becomes(S)

\* self.playwright.stop() returns to close, called by c.
playwright_stop_returns(c) ==
    /\ browser.calls[c].pc = "playwright_stop"
    /\ Runs(c)
    /\ LET e == Head(browser.calls[c].todo)
           k == browser.calls[c].held
           S == NextInstance(
                  [m |-> [Ran(browser, c) EXCEPT !.calls[c].todo = Tail(@)],
                   i |-> [instances EXCEPT ![e].playwright = NoHandle,
                                           ![e].initialized = FALSE],
                   d |-> [drivers EXCEPT ![e][k].stops = @ + 1,
                                         ![e][k].running = FALSE]], c)
       IN S.m.calls[c].pc # "blocked" /\ Becomes(S)

\* _cleanup_monitor wakes from its sleep with the idle timeout passed and
\* awaits cleanup_all_browsers.
cleanup_monitor(c) ==
    /\ c = Reaper
    /\ browser.calls[c].pc = "sleep"
    /\ Runs(c)
    /\ browser.last_request_time /\ browser.idle
    /\ Becomes(CloseAll(World, c))

\* The reaper task gets the CancelledError at the await it is suspended at.
cancelled(c) ==
    /\ c = Reaper
    /\ browser.cancel
    /\ Becomes([World EXCEPT !.m = [@ EXCEPT !.cancel = FALSE, !.before = {},
                                             !.calls[c] = [NoCall EXCEPT !.pc = "done"]]])

\* More than the idle timeout passes since last_request_time.
idle_timeout ==
    /\ browser.last_request_time /\ ~browser.idle
    /\ Becomes([World EXCEPT !.m.idle = TRUE])

InitManager ==
    /\ task = [f \in Fetches |-> IdleTask]
    /\ request_semaphore = [value |-> MaxConcurrent, waiters |-> << >>, woken |-> {}]
    /\ processing_requests = 0
    /\ waiting_requests = 0
    /\ history = << >>
    /\ now = 0
    /\ pool = [cached |-> NoProxy, lock |-> 0]
    /\ proxy_type = "none"
    /\ browser = NewManager
    /\ open_contexts = {}
    /\ open_pages = {}
    /\ ghost = [f \in Fetches |-> IdleGhost]
    /\ lookup = [asked |-> FALSE, url |-> "", browser_type |-> "", row |-> NoRow]
    /\ instances = [e \in EngineClasses |-> NewInstance]
    /\ drivers = [e \in EngineClasses |-> << >>]

NextManager ==
    \/ \E f \in Fetches, e \in Engines : get_browser(f, e)
    \/ \E f \in Fetches : initialize_start(f)
    \/ \E f \in Fetches : initialize_launch(f)
    \/ \E f \in Fetches : stale_recovery(f)
    \/ \E c \in Callers : browser_close_returns(c)
    \/ \E c \in Callers : playwright_stop_returns(c)
    \/ \E c \in Callers : cleanup_monitor(c)
    \/ \E c \in Callers : cancelled(c)
    \/ idle_timeout

SpecManager == InitManager /\ [][NextManager]_vars

\* SpecManagerUse adds what a fetch does with the browser it got.
\* create_context and create_page of _create_browser_page (lines 124-125)
\* return: the fetch has a context and a page open on the browser handle
\* get_browser returned, which no close has been called on.
new_context_returns(f) ==
    /\ browser.calls[f].pc = "idle"
    /\ browser.calls[f].held # NoHandle
    /\ Runs(f)
    /\ LET e == browser.calls[f].engine
           k == browser.calls[f].held
       IN  /\ drivers[e][k].launched
           /\ \A c \in Closing(browser, e) : browser.calls[c].held # k
           /\ \A x \in open_contexts : x[1] # f
           /\ open_contexts' = open_contexts \cup {<< f, e, k >>}
    /\ browser' = Ran(browser, f)
    /\ UNCHANGED << task, request_semaphore, processing_requests,
                    waiting_requests, history, now, pool, proxy_type,
                    open_pages, ghost, lookup, instances, drivers >>

\* The inner finally of get_html_base (lines 883-887) closes the page and
\* the context of the fetch.
context_close_returns(f) ==
    /\ \E x \in open_contexts : x[1] = f
    /\ Runs(f)
    /\ open_contexts' = { x \in open_contexts : x[1] # f }
    /\ browser' = Ran(browser, f)
    /\ UNCHANGED << task, request_semaphore, processing_requests,
                    waiting_requests, history, now, pool, proxy_type,
                    open_pages, ghost, lookup, instances, drivers >>

NextManagerUse ==
    \/ NextManager
    \/ \E f \in Fetches : new_context_returns(f)
    \/ \E f \in Fetches : context_close_returns(f)

SpecManagerUse == InitManager /\ [][NextManagerUse]_vars

\* The event loop runs every task that is ready: the reaper when its sleep
\* is over or it was cancelled, and a caller whose driver operation has
\* returned.  Nothing makes a fetch arrive or time pass.
SpecManagerLive ==
    /\ SpecManager
    /\ WF_vars(cleanup_monitor(Reaper))
    /\ WF_vars(cancelled(Reaper))
    /\ WF_vars(\E c \in Callers : browser_close_returns(c))
    /\ WF_vars(\E c \in Callers : playwright_stop_returns(c))
    /\ WF_vars(\E f \in Fetches : initialize_start(f))
    /\ WF_vars(\E f \in Fetches : initialize_launch(f))

\* ------------------------------------------- is_proxy_error on any message
\* SpecClassify hands is_proxy_error an exception message and passes the
\* reason it answers to invalidate_proxy, as the except branch of
\* execute_with_proxy_retry does.  A message is described by the set of the
\* substrings below it contains.

PROXY_ERROR_PATTERNS ==
    << "net::ERR_TUNNEL_CONNECTION_FAILED",
       "NS_ERROR_PROXY_CONNECTION_REFUSED",
       "NS_ERROR_NET_EMPTY_RESPONSE",
       "ERR_PROXY_CONNECTION_FAILED",
       "Proxy connection refused",
       "Could not connect to proxy" >>

PatternSet == {PROXY_ERROR_PATTERNS[i] : i \in DOMAIN PROXY_ERROR_PATTERNS}

\* What a message may contain: the patterns, and the word proxy by itself.
Substrings == PatternSet \cup {"proxy"}

\* "TUNNEL" in pattern.
HasTunnel(p) == p = "net::ERR_TUNNEL_CONNECTION_FAILED"

\* "REFUSED" in pattern or "refused" in pattern.lower().
HasRefused(p) ==
    p \in {"NS_ERROR_PROXY_CONNECTION_REFUSED", "Proxy connection refused"}

\* "PROXY" in s.upper(), for a substring s.
HasProxy(s) ==
    s \in {"NS_ERROR_PROXY_CONNECTION_REFUSED", "ERR_PROXY_CONNECTION_FAILED",
           "Proxy connection refused", "Could not connect to proxy", "proxy"}

\* str(error): a text that contains exactly the substrings in m.
RECURSIVE Joined(_, _)
Joined(m, i) ==
    IF i > Len(PROXY_ERROR_PATTERNS) THEN (IF "proxy" \in m THEN " proxy" ELSE "")
    ELSE (IF PROXY_ERROR_PATTERNS[i] \in m
          THEN " " \o PROXY_ERROR_PATTERNS[i] ELSE "") \o Joined(m, i + 1)

error_str(m) == "Error:" \o Joined(m, 1)

\* The loop of is_proxy_error from pattern i on: the elif is tried in every
\* iteration in which the pattern is not in the message.
RECURSIVE is_proxy_error_loop(_, _)
is_proxy_error_loop(m, i) ==
    IF i > Len(PROXY_ERROR_PATTERNS) THEN [hit |-> FALSE, reason |-> ""]
    ELSE IF PROXY_ERROR_PATTERNS[i] \in m
    THEN IF HasTunnel(PROXY_ERROR_PATTERNS[i])
         THEN [hit |-> TRUE, reason |-> "tunnel_failed"]
         ELSE IF HasRefused(PROXY_ERROR_PATTERNS[i])
         THEN [hit |-> TRUE, reason |-> "connection_refused"]
         ELSE [hit |-> TRUE, reason |-> "other"]
    ELSE IF \E s \in m : HasProxy(s)
    THEN [hit |-> TRUE, reason |-> "other proxy_error: " \o error_str(m)]
    ELSE is_proxy_error_loop(m, i + 1)

\* The except branch of execute_with_proxy_retry classifies the exception.
classify_exception ==
    /\ task[1].pc = "idle"
    /\ task[1].pending = ""
    /\ LET r == is_proxy_error_loop(task[1].exc, 1)
       IN task' = [task EXCEPT ![1].pending = IF r.hit THEN "proxy" ELSE "fatal",
                               ![1].reason = r.reason]
    /\ UNCHANGED << request_semaphore, processing_requests, waiting_requests,
                    history, now, pool, proxy_type, browser, open_contexts,
                    open_pages, ghost, lookup, instances, drivers >>

\* and awaits proxy_pool.invalidate_proxy(reason=reason) in the proxy
\* branch, invalidate_proxy(reason="browser_error") in the other.
invalidate_classified ==
    /\ task[1].pc = "idle"
    /\ task[1].pending \in {"proxy", "fatal"}
    /\ pool.lock = 0
    /\ pool' = invalidate_proxy(pool)
    /\ ghost' = [ghost EXCEPT ![1] = Log(@,
          IF pool.cached # NoProxy
          THEN record_proxy_reuse_stats(pool) \o
               << Ev("proxy_switch_total",
                     IF task[1].pending = "proxy" THEN task[1].reason
                     ELSE "browser_error", 1) >>
          ELSE << >>)]
    /\ task' = [task EXCEPT ![1].pc = "done"]
    /\ UNCHANGED << request_semaphore, processing_requests, waiting_requests,
                    history, now, proxy_type, browser, open_contexts,
                    open_pages, lookup, instances, drivers >>

InitClassify ==
    /\ task \in {[f \in Fetches |-> IF f = 1 THEN [IdleTask EXCEPT !.exc = m]
                                    ELSE IdleTask] : m \in SUBSET Substrings}
    /\ request_semaphore = [value |-> MaxConcurrent, waiters |-> << >>, woken |-> {}]
    /\ processing_requests = 0
    /\ waiting_requests = 0
    /\ history = << >>
    /\ now = 0
    /\ pool = [cached |-> CachedProxy(1), lock |-> 0]
    /\ proxy_type = "static"
    /\ browser = [initialized |-> FALSE]
    /\ open_contexts = {}
    /\ open_pages = {}
    /\ ghost = [f \in Fetches |->
                  [IdleGhost EXCEPT !.traced = {"proxy_switch_total"}]]
    /\ lookup = [asked |-> FALSE, url |-> "", browser_type |-> "", row |-> NoRow]
    /\ instances = [e \in EngineClasses |-> NewInstance]
    /\ drivers = [e \in EngineClasses |-> << >>]

NextClassify ==
    \/ classify_exception
    \/ invalidate_classified

SpecClassify == InitClassify /\ [][NextClassify]_vars

\* SpecErrors observes the increments of api_errors_total of one fetch.
ErrorEvents == {"api_errors_total"}

SpecErrors == InitObserving(ErrorEvents) /\ [][NextOne]_vars

\* ------------------------------ an HTML fetch beside a screenshot fetch
\* get_html_screenshot of another caller, seen from the table: its
\* record_operation_metrics (lines 1136-1153) writes a row with the url, the
\* engine and the status of its result, and with response_body "", which
\* line 1035 sets and nothing assigns again.  A screenshot that was taken has
\* the status of the page; 600 and 601 come from its timeout handler.
ScreenshotCodes == {200, 404, 600, 601}

get_html_screenshot(f) ==
    /\ task[f].pc = "idle"
    /\ \E url \in Urls, browser_type \in Engines, code \in ScreenshotCodes :
          /\ history' = Append(history,
                NewRow(url, browser_type, code, EmptyBody, now, f))
          /\ task' = [task EXCEPT ![f] =
                [IdleTask EXCEPT !.pc = "done",
                    !.req = [NoReq EXCEPT !.url = url, !.browser_type = browser_type]]]
    /\ UNCHANGED << request_semaphore, processing_requests, waiting_requests,
                    now, pool, proxy_type, browser, open_contexts, open_pages,
                    ghost, lookup, instances, drivers >>

\* Fetch 1 is an HTML fetch, caller 2 takes a screenshot.
NextScreenshot ==
    \/ NextOne
    \/ get_html_screenshot(2)

SpecScreenshot == InitObserving({}) /\ [][NextScreenshot]_vars

\* ------------------------------------ the proxy-error-page check by path
\* PROXY_ERROR_PAGE_PATTERNS, in list order.  The last three stand for
\* "Proxy Error" and the two Chinese texts of the list.
PROXY_ERROR_PAGE_PATTERNS ==
    << "ErrorCode:631", "ErrorCode:632", "ErrorCode:633", "ErrorCode:634",
       "ErrorCode:635", "Proxy Error", "proxy error (zh)",
       "tunnel connection failed (zh)" >>

\* The bodies a page may hold when its content is read: the empty text, and
\* texts with few or many leaf nodes, of at most or more than 5000
\* characters, with the first listed pattern they contain.
LeafCounts == {3, 31, 32, 40}
PageBodies ==
    {EmptyBody} \cup
    { Body("P", long, leaves, pattern) :
        long \in BOOLEAN, leaves \in LeafCounts,
        pattern \in {""} \cup { PROXY_ERROR_PAGE_PATTERNS[i] :
                                 i \in DOMAIN PROXY_ERROR_PAGE_PATTERNS } }

ScreenshotResponse(screenshot, code, err) ==
    [screenshot |-> screenshot, page_status_code |-> code, page_error |-> err]

\* The functions that read the body of a page.
ContentReaders ==
    {"_handle_html_navigation", "_html_timeout_handler",
     "_handle_screenshot_navigation", "_screenshot_timeout_handler"}

\* The result is handed to the caller of execute_with_proxy_retry.
Answered(t, result) == [LoopLocals(t) EXCEPT !.result = result, !.pc = "answered"]

\* _handle_html_navigation from page.content() on (lines 697-725).
handle_html_navigation ==
    /\ task[1].pc = "_handle_html_navigation"
    /\ LET html == task[1].html_content
       IN  task' = [task EXCEPT ![1] =
              IF is_proxy_error_page(html).hit
              THEN HandlePageError(task[1], is_proxy_error_page(html).pattern)
              ELSE Answered(task[1], HtmlResponse(html, 200, get_error(200), 0))]
    /\ UNCHANGED << request_semaphore, processing_requests, waiting_requests,
                    history, now, pool, proxy_type, browser, open_contexts,
                    open_pages, ghost, lookup, instances, drivers >>

\* _html_timeout_handler with is_force_get_content, once force_get_content
\* returned html_content without an error (lines 737-774).
html_timeout_handler ==
    /\ task[1].pc = "_html_timeout_handler"
    /\ LET html_content == task[1].html_content
       IN  task' = [task EXCEPT ![1] =
              IF html_content # EmptyBody /\ html_content.long
              THEN IF is_proxy_error_page(html_content).hit
                   THEN HandlePageError(task[1],
                                        is_proxy_error_page(html_content).pattern)
                   ELSE Answered(task[1], HtmlResponse(html_content, 600,
                                                       "page load timeout", 0))
              ELSE Answered(task[1], HtmlResponse(EmptyBody, 601,
                                                  "page load timeout", 0))]
    /\ UNCHANGED << request_semaphore, processing_requests, waiting_requests,
                    history, now, pool, proxy_type, browser, open_contexts,
                    open_pages, ghost, lookup, instances, drivers >>

\* _handle_screenshot_navigation from page.content() on (lines 953-987).
handle_screenshot_navigation ==
    /\ task[1].pc = "_handle_screenshot_navigation"
    /\ LET page_content == task[1].html_content
       IN  task' = [task EXCEPT ![1] =
              IF is_proxy_error_page(page_content).hit
              THEN HandlePageError(task[1], is_proxy_error_page(page_content).pattern)
              ELSE Answered(task[1], ScreenshotResponse("png", 200, get_error(200)))]
    /\ UNCHANGED << request_semaphore, processing_requests, waiting_requests,
                    history, now, pool, proxy_type, browser, open_contexts,
                    open_pages, ghost, lookup, instances, drivers >>

\* _screenshot_timeout_handler with is_force_get_content (lines 994-1015):
\* the screenshot of the page is taken, or page.screenshot raises; the
\* content of the page is not read.
screenshot_timeout_handler ==
    /\ task[1].pc = "_screenshot_timeout_handler"
    /\ \E taken \in BOOLEAN :
          task' = [task EXCEPT ![1] =
             Answered(task[1],
                IF taken
                THEN ScreenshotResponse("png", 600, "page load timeout")
                ELSE ScreenshotResponse("", 601,
                        "page load failed while force taking screenshot"))]
    /\ UNCHANGED << request_semaphore, processing_requests, waiting_requests,
                    history, now, pool, proxy_type, browser, open_contexts,
                    open_pages, ghost, lookup, instances, drivers >>

InitDetector ==
    /\ task \in {[f \in Fetches |->
                    IF f = 1 THEN [IdleTask EXCEPT !.pc = reader,
                                                   !.html_content = body]
                    ELSE IdleTask] :
                 reader \in ContentReaders, body \in PageBodies}
    /\ request_semaphore = [value |-> MaxConcurrent, waiters |-> << >>, woken |-> {}]
    /\ processing_requests = 0
    /\ waiting_requests = 0
    /\ history = << >>
    /\ now = 0
    /\ pool = [cached |-> NoProxy, lock |-> 0]
    /\ proxy_type = "none"
    /\ browser = [initialized |-> FALSE]
    /\ open_contexts = {}
    /\ open_pages = {}
    /\ ghost = [f \in Fetches |-> IdleGhost]
    /\ lookup = [asked |-> FALSE, url |-> "", browser_type |-> "", row |-> NoRow]
    /\ instances = [e \in EngineClasses |-> NewInstance]
    /\ drivers = [e \in EngineClasses |-> << >>]

NextDetector ==
    \/ handle_html_navigation
    \/ html_timeout_handler
    \/ handle_screenshot_navigation
    \/ screenshot_timeout_handler

SpecDetector == InitDetector /\ [][NextDetector]_vars

\* ------------------------------------------------- decode_html_content
\* The codecs of the model.  A text is described by the codecs that decode
\* it without an exception and without tripping _has_decoding_errors.
Encodings == {"gb18030", "gbk", "gb2312", "big5", "utf-8", "shift_jis"}

\* What detect_charset_from_content_type and detect_charset_from_html
\* answer: a normalized name (gbk and gb2312 are normalized to gb18030), or
\* None.
None == ""
Charsets == (Encodings \ {"gbk", "gb2312"}) \cup {None}

\* fallback_encodings: the default of line 147, or a list of the caller of
\* at most MaxFallbacks names.
MaxFallbacks == 2
DefaultFallbacks == << "gb18030", "gbk", "gb2312", "big5", "utf-8" >>
FallbackLists ==
    {DefaultFallbacks} \cup UNION { [1 .. n -> Encodings] : n \in 0 .. MaxFallbacks }

\* Step 4 (lines 173-181) from the i-th fallback on, then step 5 (lines
\* 183-185).  tried is the sequence of codecs decoded with so far.
RECURSIVE FallbackLoop(_, _, _, _)
FallbackLoop(accepted, fallback_encodings, i, tried) ==
    IF i > Len(fallback_encodings)
    THEN [encoding |-> "utf-8", errors |-> "replace", tried |-> tried]
    ELSE IF fallback_encodings[i] \in accepted
    THEN [encoding |-> fallback_encodings[i], errors |-> "strict",
          tried |-> Append(tried, fallback_encodings[i])]
    ELSE FallbackLoop(accepted, fallback_encodings, i + 1,
                      Append(tried, fallback_encodings[i]))

\* decode_html_content (lines 121-185) on a text that is not empty: header
\* is the charset of the Content-Type, meta the charset the text declares.
decode_html_content(accepted, header, meta, fallback_encodings) ==
    LET detected_encoding == IF header # None THEN header ELSE meta
    IN  IF detected_encoding # None /\ detected_encoding \in accepted
        THEN [encoding |-> detected_encoding, errors |-> "strict",
              tried |-> << detected_encoding >>]
        ELSE FallbackLoop(accepted, fallback_encodings, 1,
                          IF detected_encoding # None
                          THEN << detected_encoding >> ELSE << >>)

NoDecode == [encoding |-> None, errors |-> "", tried |-> << >>]

\* A caller decodes a text.
CallDecode ==
    /\ ~lookup.asked
    /\ lookup' = [lookup EXCEPT !.asked = TRUE,
                     !.row = decode_html_content(lookup.accepted, lookup.header,
                                                 lookup.meta, lookup.fallback_encodings)]
    /\ UNCHANGED << task, request_semaphore, processing_requests,
                    waiting_requests, history, now, pool, proxy_type, browser,
                    open_contexts, open_pages, ghost, instances, drivers >>

InitDecode ==
    /\ task = [f \in Fetches |-> IdleTask]
    /\ request_semaphore = [value |-> MaxConcurrent, waiters |-> << >>, woken |-> {}]
    /\ processing_requests = 0
    /\ waiting_requests = 0
    /\ history = << >>
    /\ now = 0
    /\ pool = [cached |-> NoProxy, lock |-> 0]
    /\ proxy_type = "none"
    /\ browser = [initialized |-> FALSE]
    /\ open_contexts = {}
    /\ open_pages = {}
    /\ ghost = [f \in Fetches |-> IdleGhost]
    /\ lookup \in [asked : {FALSE}, accepted : SUBSET Encodings,
                   header : Charsets, meta : Charsets,
                   fallback_encodings : FallbackLists, row : {NoDecode}]
    /\ instances = [e \in EngineClasses |-> NewInstance]
    /\ drivers = [e \in EngineClasses |-> << >>]

NextDecode == CallDecode

SpecDecode == InitDecode /\ [][NextDecode]_vars

\* ------------------------------------------------ the admission queue alone
\* SpecQueue follows NumArrivals fetches through the admission queue of
\* get_html_base: the gauge read (line 824), the proxy (line 831, no proxy
\* configured), the semaphore (line 833) and the end of the with block.  What
\* an admitted fetch does with its slot touches neither the semaphore nor the
\* gauge, and is taken as one step.
Arrivals == 1 .. NumArrivals

\* The body of `async with request_semaphore` of an admitted fetch, up to
\* the release of the slot and the decrement in the outer finally: the
\* history write is what the fetch awaits next.
with_request_semaphore(f) ==
    /\ task[f].pc \in InCreate
    /\ ~task[f].recreating
    /\ request_semaphore' = SemRelease(request_semaphore)
    /\ task' = [task EXCEPT ![f] = OuterFinally(task[f], "none")]
    /\ processing_requests' = processing_requests - 1
    /\ ghost' = [ghost EXCEPT ![f] = [@ EXCEPT !.slots = @ - 1, !.decs = @ + 1]]
    /\ UNCHANGED << waiting_requests, history, now, pool, proxy_type, browser,
                    open_contexts, open_pages, lookup, instances, drivers >>

InitQueue ==
    /\ task = [f \in Arrivals |-> IdleTask]
    /\ request_semaphore = [value |-> MaxConcurrent, waiters |-> << >>, woken |-> {}]
    /\ processing_requests = 0
    /\ waiting_requests = 0
    /\ history = << >>
    /\ now = 0
    /\ pool = [cached |-> NoProxy, lock |-> 0]
    /\ proxy_type = "none"
    /\ browser = [initialized |-> FALSE]
    /\ open_contexts = {}
    /\ open_pages = {}
    /\ ghost = [f \in Arrivals |-> IdleGhost]
    /\ lookup = [asked |-> FALSE, url |-> "", browser_type |-> "", row |-> NoRow]
    /\ instances = [e \in EngineClasses |-> NewInstance]
    /\ drivers = [e \in EngineClasses |-> << >>]

NextQueue ==
    \E f \in Arrivals :
        \/ Start(f, FALSE, FALSE)
        \/ PoolGet(f)
        \/ SemWake(f)
        \/ with_request_semaphore(f)
        \/ HistoryWrite(f)
        \/ Cancel(f)

SpecQueue == InitQueue /\ [][NextQueue]_vars

\* ------------------------------------------------- fetches under fairness
\* ProxyManager.get_api gets an answer that is not a proxy (a status other
\* than 200, an empty body, or the call raised): the loop sleeps 2 s and
\* asks again, with ProxyPool._async_lock still held by get_proxy.
get_api_retry(f) ==
    /\ task[f].pc \in {"provider", "provider_sleep"}
    /\ task' = [task EXCEPT ![f].pc =
                   IF @ = "provider" THEN "provider_sleep" ELSE "provider"]
    /\ UNCHANGED << request_semaphore, processing_requests, waiting_requests,
                    history, now, pool, proxy_type, browser, open_contexts,
                    open_pages, ghost, lookup, instances, drivers >>

\* SpecLive runs the fetches of Spec to their end, uncancelled and without
\* the cache: every await of a fetch returns, with any of its outcomes, and
\* the event loop resumes every fetch that can go on.
InitLive ==
    /\ Init
    /\ history = << >>

NextLive ==
    \E f \in Fetches :
        \/ Start(f, FALSE, FALSE)
        \/ PoolGet(f)
        \/ ProviderReply(f)
        \/ get_api_retry(f)
        \/ SemWake(f)
        \/ Launch(f)
        \/ CreateContext(f)
        \/ CreatePage(f)
        \/ Reinit(f)
        \/ SetupPage(f)
        \/ Goto(f)
        \/ Settle(f)
        \/ Content(f)
        \/ TimeoutSleep(f)
        \/ Invalidate(f)
        \/ ReClosePage(f)
        \/ ReCloseContext(f)
        \/ FinClosePage(f)
        \/ FinCloseContext(f)
        \/ HistoryWrite(f)

\* One step of fetch f, whatever it is.
FetchStep(f) ==
    \/ Start(f, FALSE, FALSE)
    \/ PoolGet(f)
    \/ ProviderReply(f)
    \/ get_api_retry(f)
    \/ SemWake(f)
    \/ Launch(f)
    \/ CreateContext(f)
    \/ CreatePage(f)
    \/ Reinit(f)
    \/ SetupPage(f)
    \/ Goto(f)
    \/ Settle(f)
    \/ Content(f)
    \/ TimeoutSleep(f)
    \/ Invalidate(f)
    \/ ReClosePage(f)
    \/ ReCloseContext(f)
    \/ FinClosePage(f)
    \/ FinCloseContext(f)
    \/ HistoryWrite(f)

SpecLive ==
    /\ InitLive
    /\ [][NextLive]_vars
    /\ \A f \in Fetches : WF_vars(FetchStep(f))

\* SpecLive with a provider that yields a proxy in the end.
SpecLiveProvider ==
    /\ SpecLive
    /\ \A f \in Fetches : SF_vars(ProviderReply(f))

\* ================================================================ properties
Finished == {"done", "raised", "cancelled"}

\* The contexts and pages of fetch f that are open.
Own(f) == { c \in open_contexts \cup open_pages : c[1] = f }

\* The fetches inside `async with request_semaphore`.
Admitted ==
    { f \in Fetches :
        \/ task[f].pc \in InCreate \cup InInnerTry
        \/ task[f].pc \in {"fin_close_page", "fin_close_context"}
        \/ task[f].pc \in BeforeSemaphore /\ task[f].recreating }

\* The fresh 200 rows of the table for the request of fetch f.
Fresh200(f) ==
    { i \in 1 .. Len(history) :
        /\ history[i].url = task[f].req.url
        /\ history[i].browser_type = task[f].req.browser_type
        /\ history[i].status_code = 200
        /\ now - history[i].created_at < FRESH_DAYS }

\* C1: every call of the orchestrator returns one result and no exception
\* leaves it, a failing cache probe or history write included.
C1_NoExceptionEscapes ==
    \A f \in Fetches : task[f].pc # "raised" /\ ghost[f].returned <= 1

\* C2: a fetch calls page.goto at most MAX_PROXY_RETRY_ATTEMPTS times, and
\* while a navigation attempt runs the calls made are one more than the
\* retries counted, whatever mix of proxy exceptions and proxy pages
\* caused them.
C2_NavigationsBounded ==
    \A f \in Fetches :
        /\ ghost[f].navigations <= MAX_PROXY_RETRY_ATTEMPTS
        /\ task[f].pc \in {"goto", "settle", "content", "timeout_sleep", "force_read"}
              => ghost[f].navigations = task[f].retry_count + 1

C2_ThirdNavigation ==
    \E f \in Fetches :
        task[f].pc = "goto" /\ ghost[f].navigations = MAX_PROXY_RETRY_ATTEMPTS

\* C3: once a fetch has returned or unwound, every context and page it
\* created is closed.
C3_AllClosed ==
    \A f \in Fetches : task[f].pc \in Finished => Own(f) = {}

\* C4: the fetches between admission and release never outnumber
\* max_concurrent_requests; free, handed-over and held slots add up to the
\* capacity; a fetch holds one slot from admission to the end of its inner
\* finally, retries included, and none before or after.
C4_ConcurrencyBounded ==
    /\ Cardinality(Admitted) <= MaxConcurrent
    /\ request_semaphore.value >= 0
    /\ request_semaphore.value + Cardinality(request_semaphore.woken)
          + Cardinality(Admitted) = MaxConcurrent
    /\ \A f \in Fetches : ghost[f].slots = IF f \in Admitted THEN 1 ELSE 0

C4_RetryingWhileOtherWaits ==
    \E f, g \in Fetches :
        /\ task[f].pc = "goto" /\ task[f].retry_count > 0
        /\ task[g].pc = "sem_wait"

\* C5: a step that answers with cache_hit=1 is the cache probe finding a
\* row; it returns that row's body, and the fetch has asked for no proxy,
\* holds no slot, has no context or page, and no row is written.
C5_CacheHitTouchesNothing ==
    [][\A f \in Fetches :
          (task[f].result.cache_hit = 0 /\ task'[f].result.cache_hit = 1) =>
              /\ task[f].pc = "probe" /\ task'[f].pc = "done"
              /\ \E i \in 1 .. Len(history) :
                    task'[f].result.html = history[i].response_body
              /\ ghost[f].pool_gets = 0 /\ ghost'[f].pool_gets = 0
              /\ ghost[f].navigations = 0 /\ ghost'[f].navigations = 0
              /\ f \notin Admitted /\ ghost'[f].slots = 0
              /\ Own(f) = {}
              /\ ghost'[f].rows = 0
              /\ UNCHANGED << history, pool, request_semaphore, open_contexts,
                              open_pages >>]_vars

C5_HitServed ==
    \E f \in Fetches :
        /\ task[f].pc = "done" /\ ghost[f].hit
        /\ task[f].result.cache_hit = 1 /\ task[f].result.html = BodyOld

\* C6: when the latest fresh row of a 200 fetch of (url, engine) is in the
\* table, a use_cache request for them is answered from the cache with the
\* body of that fetch, whatever was stored before it.
C6_CacheIdempotent ==
    \A f \in Fetches :
        (task[f].pc = "probe" /\ Fresh200(f) # {}) =>
            \A i \in get_request_history(history, task[f].req.url,
                                          task[f].req.browser_type, now) :
                /\ i # NoRow
                /\ \A j \in Fresh200(f) :
                      j <= i \/ history[i].response_body = history[j].response_body

\* C7: the lookup is a hit exactly when the store holds a row with the
\* url's digest, the same engine, status 200 and an age under 24 hours,
\* and the row it answers with is such a row.
C7_HitIffFresh200 ==
    lookup.asked =>
        LET Match(i) ==
                /\ history[i].url_hash = get_hashed_url(lookup.url)
                /\ history[i].browser_type = lookup.browser_type
                /\ history[i].status_code = 200
                /\ now - history[i].created_at < FRESH_DAYS
        IN  /\ lookup.row # NoRow <=> \E i \in 1 .. Len(history) : Match(i)
            /\ lookup.row # NoRow =>
                  lookup.row \in 1 .. Len(history) /\ Match(lookup.row)

C7_HitBesideNon200 ==
    /\ lookup.asked /\ lookup.row # NoRow
    /\ \E i \in 1 .. Len(history) :
          /\ history[i].url = lookup.url
          /\ history[i].browser_type = lookup.browser_type
          /\ history[i].status_code # 200

\* C8: a fetch that returns without a cache hit has appended exactly one
\* row, carrying the status it returns; a cache hit has appended none; and
\* no step changes or removes a row of the table.
C8_OneRowPerFetch ==
    [][/\ Len(history') >= Len(history)
       /\ \A i \in 1 .. Len(history) : history'[i] = history[i]
       /\ \A f \in Fetches :
            task'[f].pc = "done" =>
                LET mine == { i \in 1 .. Len(history') : history'[i].fetch = f }
                IN  IF task'[f].result.cache_hit = 1
                    THEN mine = {} /\ ghost'[f].rows = 0
                    ELSE /\ Cardinality(mine) = 1 /\ ghost'[f].rows = 1
                         /\ \A i \in mine : history'[i].status_code =
                                                task'[f].result.page_status_code]_vars

C8_RowOfRetriedFetch ==
    \E f \in Fetches :
        /\ task[f].pc = "done" /\ task[f].result.page_status_code = 605
        /\ \E i \in 1 .. Len(history) :
              history[i].fetch = f /\ history[i].status_code = 605

\* C9: processing_requests is never negative, each fetch decrements it at
\* most once, and it is back at its initial value when no fetch is running.
C9_GaugeBalanced ==
    /\ processing_requests >= 0
    /\ \A f \in Fetches : ghost[f].decs <= ghost[f].incs
    /\ (\A f \in Fetches : task[f].pc \in Finished \cup {"idle"})
          => processing_requests = 0

\* C10: a fetch cancelled at the semaphore wait, during context creation,
\* navigation, the settle sleep, the content read or the proxy
\* re-acquisition has given back its slot, closed its contexts and pages,
\* decremented processing_requests and appended no row.
C10_CancelClean ==
    \A f \in Fetches :
        (task[f].pc = "cancelled" /\ ghost[f].cancel_point = "listed") =>
            /\ f \notin Admitted /\ ghost[f].slots = 0
            /\ Own(f) = {}
            /\ ghost[f].decs = ghost[f].incs
            /\ ghost[f].rows = 0

\* ------------------------------------------------- the fetch of SpecOne
\* The events of kind op of the observed fetch, in order.
Sel(op) == SelectSeq(ghost[1].events, LAMBDA e : e.op = op)

\* The navigations of the observed fetch that ended in the proxy-exception
\* branch or the proxy-page branch, in order.
ProxyFailures ==
    SelectSeq(ghost[1].events,
              LAMBDA e : \/ e.op = "proxy_page"
                         \/ e.op = "exception" /\ is_proxy_error(e.arg).hit)

\* execute_with_proxy_retry has returned a result to get_html_base, and no
\* close of the inner finally has replaced it.
Emitted ==
    /\ task[1].pc \in {"fin_close_page", "fin_close_context", "hist_write", "done"}
    /\ Len(Sel("emit")) = 1
    /\ Len(Sel("close_failed")) = 0

\* C11: when the retry loop of a fetch has returned and every navigation
\* made ended in a proxy-classified exception or a proxy error page, then
\* MAX_PROXY_RETRY_ATTEMPTS navigations were made, invalidate_proxy was
\* called once after each with the reason of that failure (tunnel_failed
\* for net::ERR_TUNNEL_CONNECTION_FAILED, page_error_<pattern> for a page),
\* proxy_retry_total was incremented for attempt 1, 2, 3 in turn, and the
\* result is 604 "Proxy error after 3 retries" with no html when the last
\* failure is an exception, 605 when it is a page.
C11_RetryExhaustion ==
    (Emitted /\ Len(Sel("goto")) = Len(ProxyFailures)) =>
        /\ Len(Sel("goto")) = 3
        /\ Len(Sel("invalidate_proxy")) = 3
        /\ Len(Sel("proxy_retry_total")) = 3
        /\ \A i \in 1 .. 3 :
              /\ Sel("proxy_retry_total")[i].n = i
              /\ ProxyFailures[i].op = "exception" =>
                    Sel("invalidate_proxy")[i].arg = is_proxy_error(ProxyFailures[i].arg).reason
              /\ (ProxyFailures[i].op = "exception" /\ ProxyFailures[i].arg = MsgTunnel) =>
                    Sel("invalidate_proxy")[i].arg = "tunnel_failed"
              /\ ProxyFailures[i].op = "proxy_page" =>
                    Sel("invalidate_proxy")[i].arg = "page_error_" \o ProxyFailures[i].arg
        /\ task[1].result.html = EmptyBody
        /\ task[1].result.cache_hit = 0
        /\ ProxyFailures[3].op = "exception" =>
              /\ task[1].result.page_status_code = 604
              /\ task[1].result.page_error = "Proxy error after 3 retries"
        /\ ProxyFailures[3].op = "proxy_page" =>
              /\ task[1].result.page_status_code = 605

C11_ThreeTunnelFailures ==
    /\ task[1].pc = "done"
    /\ Emitted
    /\ Len(ProxyFailures) = 3
    /\ \A i \in 1 .. 3 : ProxyFailures[i] = Ev("exception", MsgTunnel, 0)
    /\ \A i \in 1 .. 3 : Sel("invalidate_proxy")[i].arg = "tunnel_failed"
    /\ task[1].result.page_status_code = 604

C13_SuccessResult ==
    (Emitted /\ Len(Sel("content")) = 1 /\ Len(ProxyFailures) = 0) =>
        /\ Len(Sel("goto")) = 1
        /\ Len(Sel("response")) = 1
        /\ Len(Sel("invalidate_proxy")) = 0
        /\ Len(Sel("proxy_retry_total")) = 0
        /\ Sel("get_proxy") = << Ev("get_proxy", "", 0) >>
        /\ \E body \in Bodies, s \in HttpStatuses :
              /\ body.id = Sel("content")[1].arg
              /\ ~is_proxy_error_page(body).hit
              /\ s = Sel("response")[1].n
              /\ task[1].result = HtmlResponse(body, s, get_error(s), 0)
              /\ s = 200 => task[1].result.page_error = ""

C13_Returned404 ==
    /\ task[1].pc = "done"
    /\ Emitted
    /\ Len(Sel("content")) = 1
    /\ Len(Sel("goto")) = 1
    /\ task[1].result = HtmlResponse(BodyA, 404, get_error(404), 0)

\* C14: once page.goto of a fetch without is_force_get_content has timed
\* out, the fetch makes no further navigation, counts no retry, calls
\* neither invalidate_proxy nor get_proxy, so the cached proxy stays as it
\* was; and the result is 601 with empty html and the text "page load
\* timeout".
C14_TimeoutNoForce ==
    \A i \in 1 .. Len(ghost[1].events) :
        ghost[1].events[i] = Ev("timeout", "", 0) =>
            /\ \A j \in (i + 1) .. Len(ghost[1].events) :
                  ghost[1].events[j].op \in {"emit", "close_failed"}
            /\ task[1].pc = "timeout_sleep" =>
                  task[1].retry_count = Len(Sel("proxy_retry_total"))
            /\ Emitted =>
                  task[1].result = HtmlResponse(EmptyBody, 601, "page load timeout", 0)

C14_TimedOutProxyKept ==
    /\ task[1].pc = "done"
    /\ Emitted
    /\ Len(ghost[1].events) = 4
    /\ ghost[1].events[3] = Ev("timeout", "", 0)
    /\ task[1].result.page_status_code = 601
    /\ pool.cached = NewCachedProxy(pool)

\* ------------------------------------------------ the fetch of SpecForce
\* The position of the last timeout of the observed fetch, 0 for none.
LastTimeout ==
    LET at == { i \in 1 .. Len(ghost[1].events) : ghost[1].events[i].op = "timeout" }
    IN  IF at = {} THEN 0 ELSE CHOOSE i \in at : \A j \in at : j <= i

\* What the read iterations of force_get_content answered after that
\* timeout: the id of a body, or "error".
ForcedReads ==
    LET tail == SubSeq(ghost[1].events, LastTimeout + 1, Len(ghost[1].events))
    IN  [ i \in 1 .. Len(SelectSeq(tail, LAMBDA e : e.op = "force_read")) |->
            SelectSeq(tail, LAMBDA e : e.op = "force_read")[i].arg ]

LongIds == { b.id : b \in { x \in Bodies : x.long } }
BodyOf(id) == CHOOSE b \in Bodies : b.id = id

\* C15: after a timeout with is_force_get_content, force_get_content reads
\* at most FORCE_READ_ATTEMPTS times and stops at the first body longer than
\* 5000 characters; the result is 600 with that body exactly when such a
\* body was read and it is not a proxy error page; when no such body was
\* read the result is 601 with empty html; and a 601 result has empty html.
C15_ForcedContent ==
    LET reads == ForcedReads
        n == Len(reads)
        harvested == n > 0 /\ reads[n] \in LongIds
    IN  (LastTimeout > 0 /\ ghost[1].events[LastTimeout].arg = "force") =>
            /\ n <= 3
            /\ \A i \in 1 .. (n - 1) : reads[i] \notin LongIds
            /\ (Emitted /\ ghost[1].events[Len(ghost[1].events) - 1].op = "force_read") =>
                  /\ (harvested /\ ~is_proxy_error_page(BodyOf(reads[n])).hit)
                        <=> /\ task[1].result.page_status_code = 600
                            /\ task[1].result.html = BodyOf(reads[n])
                            /\ task[1].result.html # EmptyBody
                  /\ ~harvested =>
                        /\ task[1].result.page_status_code = 601
                        /\ task[1].result.html = EmptyBody
                  /\ task[1].result.page_status_code = 601 =>
                        task[1].result.html = EmptyBody

\* ------------------------------------------------------------- SpecPool
\* C16: a get_proxy that finds a CachedProxy and is not asked to refresh
\* returns its server and adds exactly 1 to its reuse_count, leaving it in
\* place; any other get_proxy returns what the source yields and installs
\* it as a new CachedProxy with reuse_count 1, or leaves the pool empty
\* when the source yields none.  Over every sequence of get_proxy,
\* invalidate_proxy and shutdown the one CachedProxy of the pool has a
\* reuse_count of at least 1, it rises by one with each get that hits it,
\* and it is 1 exactly after a get that replaced the entry.
C16_PoolGet ==
    [][/\ pool'.cached # NoProxy => pool'.cached.reuse_count >= 1
       /\ pool'.cached \notin {pool.cached, NoProxy} =>
             \E f \in Fetches : ghost'[f].pool_gets = ghost[f].pool_gets + 1
       /\ \A f \in Fetches :
            ghost'[f].pool_gets = ghost[f].pool_gets + 1 =>
                IF pool.cached # NoProxy /\ ~task'[f].recreating
                THEN /\ task'[f].proxy_item = pool.cached.server
                     /\ pool'.cached.server = pool.cached.server
                     /\ pool'.cached.reuse_count = pool.cached.reuse_count + 1
                     /\ pool'.cached.reuse_count > 1
                ELSE /\ task'[f].proxy_item \in SourceYields
                     /\ IF task'[f].proxy_item = 0
                        THEN pool'.cached = NoProxy
                        ELSE pool'.cached = [server |-> task'[f].proxy_item,
                                             reuse_count |-> 1]]_vars

C16_ReusedThenReplaced ==
    /\ pool.cached = [server |-> 2, reuse_count |-> 1]
    /\ \E f, g \in Fetches :
          /\ task[f].pc = "idle" /\ task[f].recreating
          /\ task[f].proxy_item = 2
          /\ task[g].pc = "idle" /\ ~task[g].recreating
          /\ task[g].proxy_item = 1
          /\ ghost[g].pool_gets = 2

\* ------------------------------------------------------------ SpecBurst
\* The fetches of a burst: those that were started.
Burst == { f \in Fetches : task[f].pc # "idle" }

\* Every fetch of the burst has returned, and none from the cache.
BurstOver ==
    /\ Burst # {}
    /\ \A f \in Burst : task[f].pc = "done" /\ ~ghost[f].hit

\* C17 as stated: from an empty pool, once a burst of N fetches, none a
\* cache hit, is over with no invalidation, the reuse count of the pool
\* (the value of proxy_current_reuse_count) is N.
C17_ReuseCountIsBurstSize ==
    BurstOver => pool.cached.reuse_count = Cardinality(Burst)

\* C17 amended: with a proxy source configured (proxy_type static or
\* dynamic), once a burst of N fetches, none a cache hit, is over with no
\* invalidation, every fetch has made exactly one get_proxy call, one
\* CachedProxy is in the pool and its reuse count is N; with proxy_type
\* none the pool stays empty and the count is 0.
C17_ReuseCountWithSource ==
    BurstOver =>
        /\ \A f \in Burst : ghost[f].pool_gets = 1
        /\ IF proxy_type \in {"static", "dynamic"}
           THEN /\ pool.cached # NoProxy
                /\ pool.cached.reuse_count = Cardinality(Burst)
           ELSE pool.cached = NoProxy /\ pool.cached.reuse_count = 0

C17_BurstOfAllFetches ==
    /\ BurstOver
    /\ Burst = Fetches
    /\ proxy_type = "dynamic"
    /\ pool.cached.reuse_count = NumFetches

\* The index of the last call of _create_browser_page the observed fetch
\* made, 0 before the first.
LastCreateCall ==
    LET E == ghost[1].events
        I == {i \in 1 .. Len(E) : E[i].op = "create_browser_page"}
    IN  IF I = {} THEN 0 ELSE CHOOSE i \in I : \A j \in I : j <= i

\* What the observed fetch did since that call, the closes of the finally
\* blocks left out.
SinceCreateCall ==
    SelectSeq(SubSeq(ghost[1].events, LastCreateCall + 1, Len(ghost[1].events)),
              LAMBDA e : e.op # "close_failed")

StaleFirstFailure(e) ==
    e.op = "create_failed" /\ e.n = 0 /\ should_reinit_browser(e.arg)

C19_LaunchFailureStopsDriver ==
    \A e \in EngineClasses :
        LET b == instances[e]
        IN  /\ b.outcome = "launch_failed" =>
                  /\ drivers[e][b.started].stops = 1
                  /\ b.playwright = NoHandle
                  /\ b.browser = NoHandle
                  /\ ~is_initialized(b)
            /\ (b.outcome = "initialized" /\ b.started > 1) =>
                  drivers[e][b.started].stops = 0

\* C20: for each engine, after a successful initialize the instance holds
\* the handle of the driver that call started; and when close() has
\* returned on an instance that held a browser, that browser was closed
\* once and its driver stopped once, the driver is no longer running, and
\* browser and driver handle are None and the instance is not initialized.
C20_CloseStopsDriver ==
    \A e \in EngineClasses :
        LET b == instances[e]
        IN  /\ b.outcome = "initialized" =>
                  /\ b.playwright = b.started
                  /\ b.browser = b.started
                  /\ is_initialized(b)
            /\ (b.outcome = "closed" /\ b.held # NoHandle) =>
                  /\ drivers[e][b.held].closes = 1
                  /\ drivers[e][b.held].stops = 1
                  /\ ~drivers[e][b.held].running
                  /\ b.browser = NoHandle
                  /\ b.playwright = NoHandle
                  /\ ~b.initialized

\* The index of the last get_proxy call the observed fetch made before its
\* event j, 0 when there is none.
LastGetBefore(j) ==
    LET I == {i \in 1 .. (j - 1) : ghost[1].events[i].op = "get_proxy"}
    IN  IF I = {} THEN 0 ELSE CHOOSE i \in I : \A k \in I : k <= i

\* The get_proxy call at event i yielded no proxy: it raised, or no proxy
\* source is configured.
YieldedNone(i) ==
    \/ proxy_type = "none"
    \/ i < Len(ghost[1].events) /\ ghost[1].events[i + 1].op = "get_proxy_raised"

\* C21: a get of the pool that raises is followed at once by one increment
\* of proxy_failures_total, which is incremented at no other time; after a
\* get that yielded no proxy (it raised, or the source yields none) the
\* next thing the fetch does is to call _create_browser_page, every context
\* it creates until its next get is created with no proxy.
C21_NoProxyProceeds ==
    LET E == ghost[1].events
    IN  /\ \A i \in 1 .. Len(E) :
              /\ E[i].op = "get_proxy_raised" =>
                    /\ i < Len(E)
                    /\ E[i + 1] = Ev("proxy_failures_total", "", 1)
              /\ E[i].op = "proxy_failures_total" =>
                    i > 1 /\ E[i - 1].op = "get_proxy_raised"
              /\ (E[i].op = "get_proxy" /\ YieldedNone(i)) =>
                    LET next == IF proxy_type = "none" /\ ~(i < Len(E) /\ E[i + 1].op = "get_proxy_raised")
                                THEN i + 1 ELSE i + 3
                    IN  next <= Len(E) => E[next].op = "create_browser_page"
              /\ (E[i].op = "create_context" /\ LastGetBefore(i) > 0
                     /\ YieldedNone(LastGetBefore(i))) => E[i].n = 0

C21_RaisedThenServed ==
    /\ task[1].pc = "done"
    /\ proxy_type = "static"
    /\ ghost[1].events =
          << Ev("get_proxy", "", 0), Ev("get_proxy_raised", "", 0),
             Ev("proxy_failures_total", "", 1), Ev("create_browser_page", "", 0),
             Ev("create_context", "", 0), Ev("goto", "", 1) >>
    /\ task[1].result.page_status_code = 200
    /\ task[1].result.html # EmptyBody

\* The events of the observed fetch after its last navigation timeout.
SinceTimeout ==
    SubSeq(ghost[1].events, LastTimeout + 1, Len(ghost[1].events))

\* The bodies page.content() returned to force_get_content after that
\* timeout, in order; the last one is the body harvested.
HarvestedIds == SelectSeq(ForcedReads, LAMBDA id : id # "error")

\* C22: with is_force_get_content, when a navigation timed out and the body
\* harvested by force_get_content is a proxy error page (a listed pattern,
\* or fewer than 32 leaf nodes), long or short, the timeout handler does
\* not return a result for the attempt: the attempt goes to the proxy-page
\* branch.
C22_TimeoutProxyPageWins ==
    (/\ LastTimeout > 0
     /\ ghost[1].events[LastTimeout].arg = "force"
     /\ Len(HarvestedIds) > 0
     /\ is_proxy_error_page(BodyOf(HarvestedIds[Len(HarvestedIds)])).hit) =>
        \A i \in 1 .. Len(SinceTimeout) : SinceTimeout[i].op # "emit"

\* C23: a navigation that answers HTTP 407 is handled as a proxy exception
\* with reason auth_required: proxy_retry_total is incremented,
\* invalidate_proxy("auth_required") is called, and the result the loop
\* returns after a last answer of 407 is 604, never 602 and never one with
\* status 407.
C23_AuthRequired ==
    LET E == ghost[1].events
    IN  /\ \A i \in 1 .. Len(E) :
              (E[i].op = "response" /\ E[i].n = 407) =>
                  /\ i + 1 <= Len(E) => E[i + 1] = Ev("exception", Msg407, 0)
                  /\ i + 2 <= Len(E) => E[i + 2].op = "proxy_retry_total"
                  /\ (i + 3 <= Len(E) /\ E[i + 3].op # "close_failed") =>
                        E[i + 3] = Ev("invalidate_proxy", "auth_required", 0)
        /\ (Emitted /\ Len(Sel("response")) > 0
                /\ Len(Sel("response")) = Len(Sel("goto"))
                /\ Sel("response")[Len(Sel("response"))].n = 407) =>
              task[1].result.page_status_code = 604
        /\ Emitted => task[1].result.page_status_code \notin {407}

\* An exception of a navigation that is not proxy-classified.
FatalException(e) == e.op = "exception" /\ ~is_proxy_error(e.arg).hit

\* C24: an exception of a navigation that is not proxy-classified is not
\* counted as an attempt; invalidate_proxy("browser_error") is called, then
\* errors_total{browser_error} is incremented and the loop returns 602 with
\* no html; the fetch navigates no more and asks for no other proxy, on
\* whichever attempt the exception occurs.
C24_FatalBranch ==
    LET E == ghost[1].events
        n == Len(E)
    IN  /\ \A i \in 1 .. n :
              FatalException(E[i]) =>
                  /\ (i + 1 <= n /\ E[i + 1].op # "close_failed") =>
                        E[i + 1] = Ev("invalidate_proxy", "browser_error", 0)
                  /\ (i + 2 <= n /\ E[i + 2].op # "close_failed") =>
                        E[i + 2] = Ev("errors_total", "browser_error", 1)
                  /\ (i + 3 <= n /\ E[i + 3].op # "close_failed") =>
                        E[i + 3] = Ev("emit", "", 0)
                  /\ \A j \in (i + 1) .. n :
                        E[j].op \in {"invalidate_proxy", "errors_total", "emit",
                                     "close_failed"}
                  /\ Len(Sel("proxy_retry_total")) = Len(Sel("goto")) - 1
        /\ \A i \in 1 .. n :
              E[i].op = "errors_total" => i > 2 /\ FatalException(E[i - 2])
        /\ (Emitted /\ \E i \in 1 .. n : FatalException(E[i])) =>
              /\ task[1].result.page_status_code = 602
              /\ task[1].result.html = EmptyBody

C24_FatalOnThirdAttempt ==
    /\ task[1].pc = "done"
    /\ Emitted
    /\ Len(Sel("goto")) = 3
    /\ Len(Sel("proxy_retry_total")) = 2
    /\ Len(Sel("exception")) = 3
    /\ Len(Sel("invalidate_proxy")) = 3
    /\ Sel("exception")[3] = Ev("exception", MsgOther, 0)
    /\ Sel("invalidate_proxy")[3].arg = "browser_error"
    /\ task[1].result.page_status_code = 602

\* The index of the last navigation of the observed fetch among its first j
\* events, 0 when there is none.
LastGotoUpTo(j) ==
    LET I == {i \in 1 .. j : ghost[1].events[i].op = "goto"}
    IN  IF I = {} THEN 0 ELSE CHOOSE i \in I : \A k \in I : k <= i

\* The events i+1 .. j of the observed fetch, as the calls they are.
Calls(i, j) ==
    LET S == SelectSeq(SubSeq(ghost[1].events, i + 1, j),
                       LAMBDA e : e.op # "close_failed")
    IN  [k \in 1 .. Len(S) |->
            IF S[k].op = "get_proxy" THEN "get_proxy " \o S[k].arg ELSE S[k].op]

RecreationOrder ==
    << "invalidate_proxy", "close_page", "close_context",
       "get_proxy force_refresh", "create_browser_page", "created" >>

GetReturned(f) == ghost'[f].pool_gets = ghost[f].pool_gets + 1

C26_PoolLinearizable ==
    [][\A f \in Fetches :
          /\ task[f].pc = "provider" =>
                /\ pool.lock = f
                /\ \A g \in Fetches \ {f} : task[g].pc # "provider"
                /\ task'[f] = task[f] => UNCHANGED << pool, task, ghost >>
          /\ GetReturned(f) /\ pool.cached = NoProxy =>
                pool'.cached \in {NoProxy} \cup {CachedProxy(s) : s \in Servers}
          /\ GetReturned(f) /\ pool'.cached.reuse_count > 1 =>
                /\ pool.cached # NoProxy
                /\ pool'.cached = [pool.cached EXCEPT !.reuse_count = @ + 1]
                /\ task'[f].proxy_item = pool.cached.server
          /\ pool.lock = 0 => pool'.lock \in {0, f} \/ task'[f] = task[f]]_vars

\* A caller is suspended at the provider in a forced get, holding the lock
\* over a cached proxy, while the other caller has invalidated a proxy
\* before and is kept from acting.
C26_SuspendedOverCached ==
    \E f \in Fetches : \E g \in Fetches \ {f} :
        /\ task[f].pc = "provider"
        /\ pool.cached # NoProxy
        /\ \E i \in 1..Len(ghost[g].events) :
              ghost[g].events[i].op = "proxy_switch_total"
        /\ task[g].pc = "idle"

\* ---------------------------------------------------------------------
\* C27: every invalidate_proxy(reason) leaves the pool with no CachedProxy;
\* with a proxy cached it records exactly one reuse-count observation, of
\* that proxy's final reuse_count, and one increment of
\* proxy_switch_total{reason}; with the pool empty it changes nothing and
\* emits nothing.  And every installed CachedProxy has its reuse count
\* observed exactly once over its lifetime: never more observations than
\* proxies installed, and none missing for a proxy that is gone.
Count(f, op) == Len(SelectSeq(ghost[f].events, LAMBDA e : e.op = op))

RECURSIVE Total(_, _)
Total(S, op) ==
    IF S = {} THEN 0
    ELSE LET f == CHOOSE x \in S : TRUE IN Count(f, op) + Total(S \ {f}, op)

Installed == Total(Fetches, "installed")
Observed == Total(Fetches, "proxy_reuse_count")

\* The step is a call of invalidate_proxy by f.
InvalidateStep(f) ==
    /\ task[f].pc = "idle"
    /\ task'[f].pc = "idle"
    /\ task'[f].pending = "invalidate_proxy"
    /\ task'[f].proxy_item = task[f].proxy_item
    /\ ghost'[f].pool_gets = ghost[f].pool_gets
    /\ \A g \in Fetches \ {f} : task'[g] = task[g] /\ ghost'[g] = ghost[g]

InvalidateEffect(f) ==
    /\ pool'.cached = NoProxy
    /\ IF pool.cached # NoProxy
       THEN ghost'[f].events = ghost[f].events \o
                << Ev("proxy_reuse_count", "", pool.cached.reuse_count),
                   Ev("proxy_switch_total", task'[f].reason, 1) >>
       ELSE pool' = pool /\ ghost' = ghost

ObservedOnce ==
    /\ Observed <= Installed
    /\ pool.lock = 0 =>
          Observed >= Installed - (IF pool.cached # NoProxy THEN 1 ELSE 0)

C27_InvalidateAndLifetime ==
    [][/\ \A f \in Fetches : InvalidateStep(f) => InvalidateEffect(f)
       /\ ObservedOnce']_vars

\* What holds of C27 in every behaviour, cancelled gets included: the
\* effects of each invalidate_proxy call, and no observation missing.
C27_InvalidateEffects ==
    [][/\ \A f \in Fetches : InvalidateStep(f) => InvalidateEffect(f)
       /\ (pool.lock = 0 =>
             Observed >= Installed - (IF pool.cached # NoProxy THEN 1 ELSE 0))']_vars

\* A proxy reused once was invalidated: the pool is empty and the caller's
\* log ends with the observation of 2 and the switch.
C27_InvalidatedAfterReuse ==
    \E f \in Fetches :
        /\ pool.cached = NoProxy
        /\ task[f].pending = "invalidate_proxy"
        /\ Len(ghost[f].events) >= 2
        /\ ghost[f].events[Len(ghost[f].events) - 1] = Ev("proxy_reuse_count", "", 2)
        /\ ghost[f].events[Len(ghost[f].events)].op = "proxy_switch_total"

\* ---------------------------------------------------------------------
\* C28: concurrent get_browser calls for one engine never both start it:
\* of the callers of an instance at most one is in initialize (starting the
\* driver or launching the browser), and none is once the instance is
\* initialized; so between two evictions one driver is started and one
\* browser launched, which every fetch obtains.
C28_StartedOnce ==
    \A e \in Engines :
        /\ Cardinality(Initializing(browser, e)) <= 1
        /\ is_initialized(instances[e]) => Initializing(browser, e) = {}

\* ---------------------------------------------------------------------
\* C29: whenever some BrowserInstance is initialized a reaper task is armed
\* (created and not done; the manager has one slot for it, so never two);
\* and once more than the idle timeout has passed since the last
\* acquisition, then, unless a fetch acquires a browser again, the reaper
\* eventually has evicted every instance and exited.
ReaperArmed == browser.calls[Reaper].pc \notin {"none", "done"}

SomeInitialized == \E e \in Engines : is_initialized(instances[e])

Evicted == ~SomeInitialized /\ ~ReaperArmed

IdleTimeoutPassed == browser.last_request_time /\ browser.idle

C29_IdleReaper ==
    /\ [](SomeInitialized => ReaperArmed)
    /\ IdleTimeoutPassed ~> (Evicted \/ ~IdleTimeoutPassed)

\* ---------------------------------------------------------------------
\* C30: a message that contains one of the six patterns is a proxy error
\* whose reason is the one of a pattern it contains (tunnel_failed for
\* net::ERR_TUNNEL_CONNECTION_FAILED; connection_refused for
\* NS_ERROR_PROXY_CONNECTION_REFUSED and "Proxy connection refused"; other
\* for the remaining three); a message with none of them is a proxy error
\* exactly when it contains PROXY in some case; and the reason passed to
\* invalidate_proxy, the label of proxy_switch_total, is one of the three.
StatedReason(p) ==
    IF p = "net::ERR_TUNNEL_CONNECTION_FAILED" THEN "tunnel_failed"
    ELSE IF p \in {"NS_ERROR_PROXY_CONNECTION_REFUSED", "Proxy connection refused"}
    THEN "connection_refused"
    ELSE "other"

Classified == task[1].pending \in {"proxy", "fatal"}

C30_Classification ==
    Classified =>
        LET m == task[1].exc
            hit == task[1].pending = "proxy"
        IN  /\ m \cap PatternSet # {} =>
                  hit /\ task[1].reason \in {StatedReason(p) : p \in m \cap PatternSet}
            /\ m \cap PatternSet = {} => (hit <=> "proxy" \in m)
            /\ hit => \A i \in 1..Len(ghost[1].events) :
                  ghost[1].events[i].op = "proxy_switch_total" =>
                     ghost[1].events[i].arg \in {"tunnel_failed", "connection_refused", "other"}

\* What holds of C30: every message with a pattern or the word PROXY is a
\* proxy error and no other is; the tunnel pattern gives tunnel_failed, and
\* a message without the tunnel pattern and without PROXY that contains
\* NS_ERROR_NET_EMPTY_RESPONSE gives other.
C30_HitAndTunnel ==
    Classified =>
        LET m == task[1].exc
            hit == task[1].pending = "proxy"
        IN  /\ hit <=> m # {}
            /\ "net::ERR_TUNNEL_CONNECTION_FAILED" \in m => task[1].reason = "tunnel_failed"
            /\ m = {"NS_ERROR_NET_EMPTY_RESPONSE"} => task[1].reason = "other"
            /\ task[1].reason # "connection_refused"

\* ---------------------------------------------------------- SpecDetector
\* What the detector is stated to answer for a body.
StatedPage(body) ==
    IF body.leaves < 32 THEN [hit |-> TRUE, pattern |-> "leaf_nodes_too_few"]
    ELSE IF body.pattern # "" THEN [hit |-> TRUE, pattern |-> body.pattern]
    ELSE [hit |-> FALSE, pattern |-> ""]

\* C31: a body with fewer than 32 leaf nodes is a proxy error page with
\* reason leaf_nodes_too_few, a body with a listed substring is one with
\* that substring as the pattern, every other body is none; and the normal
\* HTML path, the screenshot path and the forced-content path each send the
\* body of their page to the proxy-page branch exactly when it is one.
C31_DetectorOnEveryPath ==
    [][ task[1].pc \in ContentReaders =>
          LET stated == StatedPage(task[1].html_content)
          IN  /\ stated.hit <=> task'[1].pending = "page"
              /\ stated.hit => task'[1].reason = "page_error_" \o stated.pattern
      ]_vars

\* The same, for the normal paths and bodies that are not empty.
C31_DetectorOnNormalPaths ==
    [][ (/\ task[1].pc \in {"_handle_html_navigation", "_handle_screenshot_navigation"}
         /\ task[1].html_content # EmptyBody) =>
          LET stated == StatedPage(task[1].html_content)
          IN  /\ stated.hit <=> task'[1].pending = "page"
              /\ stated.hit => task'[1].reason = "page_error_" \o stated.pattern
      ]_vars

\* ------------------------------------------------------------------ Spec
\* The row created last among the rows the lookup of fetch f selects.
NewestEligible(f) ==
    LET S == EligibleRows(history, task[f].req.url, task[f].req.browser_type, now)
    IN  CHOOSE i \in S : \A j \in S : j <= i

\* C32: when several rows of the same url and engine with status 200 and
\* an age under 24 hours exist, a cache hit returns the response_body of
\* the one created last.
C32_HitServesNewest ==
    [][ \A f \in Fetches :
          (task[f].pc = "probe" /\ task'[f].pc = "done"
                /\ task'[f].result.cache_hit = 1) =>
              task'[f].result.html = history[NewestEligible(f)].response_body
      ]_vars

\* ------------------------------------------------------------ SpecErrors
\* The error kind a returned result stands for, "" for a page that loaded
\* or a cache hit.
EndKind(code) ==
    CASE code \in {600, 601} -> "timeout"
      [] code = 602 -> "browser_error"
      [] code = 603 -> "other"
      [] code = 604 -> "proxy_error"
      [] code = 605 -> "proxy_page_error"
      [] OTHER -> ""

\* C33: a fetch increments api_errors_total at most once, and only for the
\* kind it ends in: once for a fetch that ends in a timeout, in 604, in
\* 605, in 602 or in 603, whatever attempts came before, and not at all for
\* a fetch that ends with a loaded page.
C33_OneErrorKind ==
    task[1].pc = "done" =>
        LET E == Sel("api_errors_total")
            kind == EndKind(task[1].result.page_status_code)
        IN  /\ Len(E) <= 1
            /\ kind = "" => E = << >>
            /\ kind # "" => E = << Ev("api_errors_total", kind, 1) >>

\* The same for a fetch that made one navigation and whose closes did not
\* raise.
C33_SingleAttempt ==
    (task[1].pc = "done" /\ ghost[1].navigations <= 1
        /\ task[1].result.page_status_code # 603) =>
        LET E == Sel("api_errors_total")
            kind == EndKind(task[1].result.page_status_code)
        IN  /\ Len(E) <= 1
            /\ kind = "" => E = << >>
            /\ kind # "" => E = << Ev("api_errors_total", kind, 1) >>

\* ------------------------------------------------------------------ Spec
\* C34: within a fetch the waiting_requests gauge is published, then the
\* admission slot is acquired, and only a fetch that holds the slot asks
\* the proxy pool for a proxy: no get_proxy of a fetch is made before the
\* fetch is admitted.
C34_AdmittedBeforePoolGet ==
    [][ \A f \in Fetches :
          ghost'[f].pool_gets > ghost[f].pool_gets => f \in Admitted ]_vars

\* The gets made inside a re-creation are made by an admitted fetch.
C34_RefreshWhileAdmitted ==
    [][ \A f \in Fetches :
          (ghost'[f].pool_gets > ghost[f].pool_gets /\ task[f].recreating)
              => f \in Admitted ]_vars

\* ------------------------------------------------------------ SpecDecode
\* The candidates in the stated order: the Content-Type charset, the
\* meta-declared charset, the fallbacks in list order.
StatedCandidates ==
    (IF lookup.header # None THEN << lookup.header >> ELSE << >>) \o
    (IF lookup.meta # None THEN << lookup.meta >> ELSE << >>) \o
    lookup.fallback_encodings

\* C35: decode_html_content tries the Content-Type charset, then the
\* meta-declared charset, then each fallback in list order, then UTF-8 with
\* replacement; a candidate that fails or is rejected is followed by the
\* next one in that order, and the encoding returned is the first
\* candidate that decodes and is accepted.
C35_CandidateOrder ==
    lookup.asked =>
        LET c == StatedCandidates
            ok == { i \in 1 .. Len(c) : c[i] \in lookup.accepted }
            first == CHOOSE i \in ok : \A j \in ok : i <= j
            tried == { lookup.row.tried[i] : i \in DOMAIN lookup.row.tried }
        IN  IF ok = {}
            THEN /\ lookup.row.encoding = "utf-8"
                 /\ lookup.row.errors = "replace"
                 /\ \A i \in 1 .. Len(c) : c[i] \in tried
            ELSE /\ lookup.row.encoding = c[first]
                 /\ lookup.row.errors = "strict"
                 /\ \A i \in 1 .. first : c[i] \in tried
                 /\ \A i \in 1 .. Len(c) : c[i] \in tried => \E j \in 1 .. first : c[j] = c[i]

\* The same for a text whose Content-Type names no charset, or names one
\* and the text declares none.
C35_OneDeclaredCharset ==
    (lookup.asked /\ (lookup.header = None \/ lookup.meta = None)) =>
        LET c == StatedCandidates
            ok == { i \in 1 .. Len(c) : c[i] \in lookup.accepted }
            first == CHOOSE i \in ok : \A j \in ok : i <= j
            tried == { lookup.row.tried[i] : i \in DOMAIN lookup.row.tried }
        IN  IF ok = {}
            THEN /\ lookup.row.encoding = "utf-8"
                 /\ lookup.row.errors = "replace"
                 /\ \A i \in 1 .. Len(c) : c[i] \in tried
            ELSE /\ lookup.row.encoding = c[first]
                 /\ lookup.row.errors = "strict"
                 /\ \A i \in 1 .. first : c[i] \in tried
                 /\ \A i \in 1 .. Len(c) : c[i] \in tried => \E j \in 1 .. first : c[j] = c[i]

\* -------------------------------------------------------- SpecScreenshot
\* C36: the html of a cache hit is the body an earlier HTML fetch of the
\* same url and engine stored with status 200; a row written by a
\* screenshot fetch of the same url and engine is never served as an HTML
\* cache hit.
C36_HitServesHtmlRow ==
    [][ (task[1].pc = "probe" /\ task'[1].pc = "done"
            /\ task'[1].result.cache_hit = 1) =>
          \E i \in 1 .. Len(history) :
              /\ history[i].fetch # 2
              /\ history[i].url = task[1].req.url
              /\ history[i].browser_type = task[1].req.browser_type
              /\ history[i].status_code = 200
              /\ history[i].response_body = task'[1].result.html
      ]_vars

\* The row served is a row of the same url and engine with status 200.
C36_HitServesEligibleRow ==
    [][ (task[1].pc = "probe" /\ task'[1].pc = "done"
            /\ task'[1].result.cache_hit = 1) =>
          \E i \in 1 .. Len(history) :
              /\ history[i].url = task[1].req.url
              /\ history[i].browser_type = task[1].req.browser_type
              /\ history[i].status_code = 200
              /\ history[i].response_body = task'[1].result.html
      ]_vars

\* ------------------------------------------------------- SpecPoolFetches
\* C37: an invalidate issued by a fetch drops only the CachedProxy its
\* failing context was created with, never a proxy installed in the pool
\* after the fetch obtained its own.
C37_InvalidatesOwnProxy ==
    [][ \A f \in Fetches :
          (/\ task[f].pending # "invalidate_proxy"
           /\ task'[f].pending = "invalidate_proxy"
           /\ pool.cached # NoProxy) =>
              pool.cached.server = task[f].proxy_item ]_vars

\* The same for a fetch that is alone with the pool since it got its proxy.
C37_AloneInvalidatesOwnProxy ==
    [][ (/\ task[1].pending # "invalidate_proxy"
         /\ task'[1].pending = "invalidate_proxy"
         /\ pool.cached # NoProxy
         /\ ghost[2].pool_gets = 0) =>
              pool.cached.server = task[1].proxy_item ]_vars

\* ------------------------------------------------------------------ Spec
\* The first context of a fetch is created with a proxy that is still the
\* cached one: it was not invalidated between the get of the fetch and its
\* admission.
C37_FirstContextProxyCached ==
    [][ \A f \in Fetches :
          (/\ task[f].pc = "create_ctx" /\ task'[f].pc = "create_page"
           /\ ~task[f].recreating /\ task[f].proxy_item # 0) =>
              pool.cached # NoProxy ]_vars

\* -------------------------------------------------------- SpecManagerUse
\* Fetch f has a context open on browser k of engine e, and has called
\* nothing on the manager since it got that browser.
Uses(f, e, k) ==
    /\ << f, e, k >> \in open_contexts
    /\ browser.calls[f].pc = "idle"
    /\ browser.calls[f].engine = e
    /\ browser.calls[f].held = k

\* The close of browser k of engine e, called by c, returns in this step.
ClosedBy(c, e, k) ==
    /\ browser.calls[c].pc = "browser_close"
    /\ browser.calls[c].held = k
    /\ Head(browser.calls[c].todo) = e
    /\ drivers'[e][k].closes > drivers[e][k].closes

\* C38: no browser is closed while a fetch holds an open context or page
\* on it, neither by the stale recovery of another fetch nor by the idle
\* reaper.
C38_NoCloseUnderFetch ==
    [][ \A c \in Callers, f \in Fetches, e \in Engines :
          \A k \in DOMAIN drivers[e] :
              (c # f /\ ClosedBy(c, e, k)) => ~Uses(f, e, k) ]_vars

\* The stale recovery of another fetch closes no browser in use.
C38_RecoverySparesUsers ==
    [][ \A c \in Fetches, f \in Fetches, e \in Engines :
          \A k \in DOMAIN drivers[e] :
              (c # f /\ ClosedBy(c, e, k)) => ~Uses(f, e, k) ]_vars

\* The idle reaper closes no browser in use.
C38_ReaperSparesUsers ==
    [][ \A f \in Fetches, e \in Engines :
          \A k \in DOMAIN drivers[e] :
              ClosedBy(Reaper, e, k) => ~Uses(f, e, k) ]_vars

\* ------------------------------------------------------------ C39
\* The fetches queued on the admission semaphore, and those between their
\* first step and their last.
QueueWaiting == { f \in Arrivals : task[f].pc = "sem_wait" }
QueueInFlight == { f \in Arrivals : task[f].pc \notin Finished \cup {"idle"} }

\* C39: the waiting_requests gauge tracks the admission queue: it is 0 when
\* no fetch is waiting on the semaphore and none is in flight, and it is
\* never larger than the number of fetches waiting.
C39_GaugeTracksQueue ==
    /\ (QueueWaiting = {} /\ QueueInFlight = {}) => waiting_requests = 0
    /\ waiting_requests <= Cardinality(QueueWaiting)

\* The first half of C39 on its own.
C39_GaugeZeroAtRest ==
    (QueueWaiting = {} /\ QueueInFlight = {}) => waiting_requests = 0

\* The second half of C39 on its own.
C39_GaugeBelowQueue ==
    waiting_requests <= Cardinality(QueueWaiting)

\* The gauge is written by the first step of a fetch only, with the length
\* of the queue in that step.
C39_GaugeSetOnArrival ==
    [][ waiting_requests' # waiting_requests =>
          /\ \E f \in Arrivals : task[f].pc = "idle" /\ task'[f].pc # "idle"
          /\ waiting_requests' = Len(request_semaphore.waiters) ]_vars

\* ------------------------------------------------------------ C40
\* Fetch f has returned a result after at most MAX_PROXY_RETRY_ATTEMPTS navigations
\* and holds no slot.
ReturnedResult(f) ==
    /\ task[f].pc = "done"
    /\ ghost[f].returned = 1
    /\ ghost[f].navigations <= MAX_PROXY_RETRY_ATTEMPTS
    /\ ghost[f].slots = 0

\* Fetch f has ended, by a result or by an exception, after at most
\* MAX_PROXY_RETRY_ATTEMPTS navigations, and holds no slot.
Ended(f) ==
    /\ task[f].pc \in Finished
    /\ ghost[f].navigations <= MAX_PROXY_RETRY_ATTEMPTS
    /\ ghost[f].slots = 0

\* Fetch f is inside ProxyManager.get_api, holding the pool lock.
InGetApi(f) == task[f].pc \in {"provider", "provider_sleep"}

\* C40: when every driver call and every provider call returns and the
\* scheduling is fair, every fetch returns a result after at most 3
\* navigations holding no slot, every fetch queued on the admission
\* semaphore is admitted, and the pool lock is never held by a fetch that
\* waits for a slot.
C40_TerminationAndDeadlockFreedom ==
    /\ \A f \in Fetches : (task[f].pc # "idle") ~> ReturnedResult(f)
    /\ \A f \in Fetches : (task[f].pc = "sem_wait") ~> (f \in Admitted)
    /\ [](\A f \in Fetches : task[f].pc = "sem_wait" => pool.lock # f)

\* A fetch inside get_api leaves it.
C40_LeavesGetApi ==
    \A f \in Fetches : InGetApi(f) ~> ~InGetApi(f)

\* Every fetch ends, with a result or with an exception.
C40_EveryFetchEnds ==
    \A f \in Fetches : (task[f].pc # "idle") ~> Ended(f)

\* Every fetch queued on the admission semaphore is admitted.
C40_WaiterAdmitted ==
    \A f \in Fetches : (task[f].pc = "sem_wait") ~> (f \in Admitted)

\* The pool lock is held only by a fetch inside get_api, which is not
\* queued on the semaphore.
C40_LockNotHeldWaiting ==
    \A f \in Fetches :
        /\ pool.lock = f => InGetApi(f)
        /\ task[f].pc = "sem_wait" => pool.lock # f

====
